---- MODULE Spec2Model ----
(***************************************************************************)
(* A model of the data-consistency core of ai-shift-agent: the shift       *)
(* store (ShiftStorage), its spreadsheet mirror and local snapshots        *)
(* (SheetsClient), and the credential registry with its Redis cache and    *)
(* blacklist (user_storage, auth, redis_client).                           *)
(***************************************************************************)
EXTENDS Integers, Sequences, FiniteSets, Bags, TLC

\* ------------------------------------------------------------------------
\* Bounds of the model
\* ------------------------------------------------------------------------
\* longest batch handed to bulk_save_shifts
MaxBatch == 3
\* last value of the wall clock (the seconds field) in the snapshot runs,
\* which start at second 8
MaxClock == 10
\* most snapshot files published in one run
MaxFiles == 2
\* most rows of the users table
MaxUsers == 3
\* get_user_by_key calls in progress at once
NumAuth == 2
\* save_shift calls in progress at once
NumSavers == 2
\* most credentials revoked in one run of the races
MaxRevocations == 1
\* most tabs of the spreadsheet
MaxTabs == 2
\* most image-processing tasks submitted
MaxTasks == 2
\* largest limit handed to check_rate_limit
MaxLimit == 2

\* Python's None
NoneVal == "None"

\* ------------------------------------------------------------------------
\* Strings: a string whose characters matter is a tuple of one-character
\* strings; dates are records [y, m, d].
\* ------------------------------------------------------------------------
Digits == {"0", "1", "2", "3", "4", "5", "6", "7", "8", "9"}

DigitVal(c) ==
    CASE c = "0" -> 0 [] c = "1" -> 1 [] c = "2" -> 2 [] c = "3" -> 3
      [] c = "4" -> 4 [] c = "5" -> 5 [] c = "6" -> 6 [] c = "7" -> 7
      [] c = "8" -> 8 [] c = "9" -> 9

DigitChar(n) ==
    CASE n = 0 -> "0" [] n = 1 -> "1" [] n = 2 -> "2" [] n = 3 -> "3"
      [] n = 4 -> "4" [] n = 5 -> "5" [] n = 6 -> "6" [] n = 7 -> "7"
      [] n = 8 -> "8" [] n = 9 -> "9"

AllDigits(s) == \A i \in 1..Len(s) : s[i] \in Digits

RECURSIVE NumVal(_)
NumVal(s) == IF Len(s) = 0 THEN 0
             ELSE 10 * NumVal(SubSeq(s, 1, Len(s) - 1)) + DigitVal(s[Len(s)])

\* positions of the character c in s, ascending
Positions(s, c) == {i \in 1..Len(s) : s[i] = c}

IsLeap(y) == (y % 4 = 0 /\ y % 100 # 0) \/ y % 400 = 0

DaysInMonth(y, m) ==
    IF m = 2 THEN (IF IsLeap(y) THEN 29 ELSE 28)
    ELSE IF m \in {4, 6, 9, 11} THEN 30 ELSE 31

\* datetime.strptime(s, '%Y-%m-%d').date(): ParseFailed when strptime raises
\* ValueError. %Y is exactly four digits, %m and %d one or two digits in
\* range, the whole string must be consumed, and the day must exist.
ParseFailed == [y |-> 0, m |-> 0, d |-> 0]

\* a plausible slip: the fields are read by position, unvalidated
StrptimeUnchecked(s) ==
    IF Len(s) >= 10 /\ AllDigits(SubSeq(s, 1, 4)) /\ AllDigits(SubSeq(s, 6, 7))
       /\ AllDigits(SubSeq(s, 9, 10))
    THEN [y |-> NumVal(SubSeq(s, 1, 4)), m |-> NumVal(SubSeq(s, 6, 7)),
          d |-> NumVal(SubSeq(s, 9, 10))]
    ELSE [y |-> 2024, m |-> 3, d |-> 1]

Strptime(s) ==
    LET dash == Positions(s, "-") IN
    IF Cardinality(dash) # 2 THEN ParseFailed
    ELSE
      LET p1 == CHOOSE i \in dash : \A j \in dash : i <= j
          p2 == CHOOSE i \in dash : \A j \in dash : j <= i
          ys == SubSeq(s, 1, p1 - 1)
          ms == SubSeq(s, p1 + 1, p2 - 1)
          ds == SubSeq(s, p2 + 1, Len(s))
      IN IF /\ Len(ys) = 4 /\ AllDigits(ys) /\ NumVal(ys) >= 1
            /\ Len(ms) \in {1, 2} /\ AllDigits(ms) /\ NumVal(ms) \in 1..12
            /\ Len(ds) \in {1, 2} /\ AllDigits(ds) /\ NumVal(ds) >= 1
            /\ NumVal(ds) <= DaysInMonth(NumVal(ys), NumVal(ms))
         THEN [y |-> NumVal(ys), m |-> NumVal(ms), d |-> NumVal(ds)]
         ELSE ParseFailed

\* n as a zero-padded decimal of the given width
RECURSIVE Pad(_, _)
Pad(n, width) == IF width = 0 THEN <<>>
                 ELSE Pad(n \div 10, width - 1) \o <<DigitChar(n % 10)>>

\* date.strftime("%Y-%m-%d")
Strftime(dt) == Pad(dt.y, 4) \o <<"-">> \o Pad(dt.m, 2) \o <<"-">> \o Pad(dt.d, 2)

\* date ordering (ORDER BY shift_date, the range filters)
DateLeq(a, b) ==
    \/ a.y < b.y
    \/ a.y = b.y /\ a.m < b.m
    \/ a.y = b.y /\ a.m = b.m /\ a.d <= b.d

\* str.lower() on the owner names of the model
Lower(s) ==
    CASE s = "CARLO" -> "carlo" [] s = "Carlo" -> "carlo" [] s = "carlo" -> "carlo"
      [] s = "ANNA" -> "anna" [] s = "Anna" -> "anna" [] s = "anna" -> "anna"
      [] s = "VISION_MODEL" -> "vision_model"
      [] OTHER -> s

\* Python's  x or ""
OrEmpty(x) == IF x = NoneVal THEN "" ELSE x

\* ------------------------------------------------------------------------
\* The data of the model
\* ------------------------------------------------------------------------
D1 == [y |-> 2024, m |-> 3, d |-> 1]
D2 == [y |-> 2024, m |-> 3, d |-> 2]
Dates == {D1, D2}

\* users table: id -> the columns the storage code reads
Users ==
    [u \in {1, 2} |->
        IF u = 1 THEN [id |-> 1, name |-> "CARLO", spreadsheet_id |-> "sheetA"]
        ELSE [id |-> 2, name |-> "ANNA", spreadsheet_id |-> "sheetA"]]
Owners == DOMAIN Users

VARIABLES
    shifts,     \* the shifts table: a bag of rows
    tabs,       \* the spreadsheet: tab title -> list of rows
    backups,    \* temp/backups: file name -> file content
    now,        \* the wall clock, in seconds
    last,       \* the call that returned last, with what it returned
    users,      \* the users table: id -> row
    api_keys,   \* the api_keys table: a set of rows
    cache,      \* Redis "user:{api_key}" entries: token -> cached user dict
    blacklist,  \* Redis "blacklist:{api_key}" entries: a set of tokens
    procs,      \* the calls in progress: process -> its locals and position
    system_settings,  \* the system_settings table: key -> value
    setting_cache,    \* Redis "setting:{key}" entries: key -> value
    ratelimit,        \* Redis "ratelimit:{user_id}" entries: id -> counter
    redis             \* the cache backend: "up", "raising", "uninitialised"

sheetVars == <<shifts, tabs, backups, now>>

authVars == <<users, api_keys, cache, blacklist>>

confVars == <<system_settings, setting_cache, ratelimit, redis>>

\* ------------------------------------------------------------------------
\* SheetsClient: the spreadsheet tabs and the local versioned snapshots
\* ------------------------------------------------------------------------
\* The date strings of the model and their characters.
Chars(s) ==
    CASE s = "2024-03-01" -> <<"2","0","2","4","-","0","3","-","0","1">>
      [] s = "2024-03-02" -> <<"2","0","2","4","-","0","3","-","0","2">>
      [] s = "2024-3-1"   -> <<"2","0","2","4","-","3","-","1">>
      [] s = "2024-02-30" -> <<"2","0","2","4","-","0","2","-","3","0">>
      [] s = "01/03/2024" -> <<"0","1","/","0","3","/","2","0","2","4">>
      [] s = "Data"       -> <<"D","a","t","a">>
      [] OTHER            -> <<>>

DateStrings == {"2024-03-01", "2024-03-02", "2024-3-1", "2024-02-30", "01/03/2024", ""}

\* the string with the given characters
Str(cs) == IF \E s \in DateStrings : Chars(s) = cs
           THEN CHOOSE s \in DateStrings : Chars(s) = cs
           ELSE "?"

\* A row is a Python list of cells (kind "list") or, after update_shift has
\* replaced it by new_values, a dict (kind "dict") whose values are the cells.
ListRow(cells) == [kind |-> "list", cells |-> cells]
DictRow(nv) == [kind |-> "dict", cells |-> <<nv.slot_1, nv.slot_2, nv.notes>>]

Header == ListRow(<<"Data", "Giorno", "Utente", "Slot 1", "Slot 2", "Source">>)

\* timestamped names: the seconds field of "%Y%m%d_%H%M%S" is the clock of
\* the model, the fields before it are fixed
Stamp(t) == <<"20240301_0800">> \o Pad(t, 2)
BackupName(t) == <<"shifts_">> \o Stamp(t) \o <<".json">>
TabTitle(t) == <<"shifts_">> \o Stamp(t)
Sheet1 == <<"Sheet1">>

\* str comparison: characters compare by code point; the tokens that meet a
\* digit are "." (below the digits)
TokRank(x) == IF x \in Digits THEN DigitVal(x) + 1 ELSE 0

RECURSIVE LexLess(_, _)
LexLess(a, b) ==
    IF Len(b) = 0 THEN FALSE
    ELSE IF Len(a) = 0 THEN TRUE
    ELSE IF a[1] = b[1] THEN LexLess(Tail(a), Tail(b))
    ELSE TokRank(a[1]) < TokRank(b[1])

\* names.sort(reverse=True)[0]
SortedFirstAscending(S) == CHOOSE f \in S : \A g \in S : g = f \/ LexLess(f, g)

LatestName(S) == CHOOSE f \in S : \A g \in S : g = f \/ LexLess(g, f)

\* json.dump / json.load of a list of rows: None becomes null, a string a
\* quoted string
JsonCell(c) == IF c = NoneVal THEN <<"null">> ELSE <<"str", c>>
UnJsonCell(j) == IF j[1] = "null" THEN NoneVal ELSE j[2]
JsonDump(rows) ==
    [i \in 1..Len(rows) |->
        [kind |-> rows[i].kind,
         cells |-> [k \in 1..Len(rows[i].cells) |-> JsonCell(rows[i].cells[k])]]]
JsonLoad(text) ==
    [i \in 1..Len(text) |->
        [kind |-> text[i].kind,
         cells |-> [k \in 1..Len(text[i].cells) |-> UnJsonCell(text[i].cells[k])]]]

\* save_versioned_local: a new file named after the clock
SaveVersionedLocal(bk, t, turni) ==
    (BackupName(t) :> JsonDump(turni)) @@ bk

\* the oldest file instead of the newest
OldestLocalBackup(bk) ==
    IF DOMAIN bk = {} THEN <<>>
    ELSE JsonLoad(bk[SortedFirstAscending(DOMAIN bk)])

\* get_latest_local_backup
GetLatestLocalBackup(bk) ==
    IF DOMAIN bk = {} THEN <<>>
    ELSE JsonLoad(bk[LatestName(DOMAIN bk)])

\* the states of the spreadsheet service a call can meet: "up", "absent"
\* (self.service is None), "down" (every RPC raises), "reject" (reads
\* succeed, the values().update RPC raises)
Services == {"up", "absent", "down", "reject"}

VersionedTitles(tb) == {t \in DOMAIN tb : \E i \in 1..Len(t) : t[i] = "shifts_"}

\* get_values(range_name) for the range 'Sheet1!A:F'
GetValuesSheet1(tb, bk, svc) ==
    IF svc \in {"absent", "down"} THEN GetLatestLocalBackup(bk)
    ELSE IF Sheet1 \in DOMAIN tb THEN tb[Sheet1]
    ELSE GetLatestLocalBackup(bk)

\* get_latest_sheet_data, had it sorted the titles in ascending order
GetOldestSheetData(tb, bk, svc) ==
    IF svc = "absent" THEN GetLatestLocalBackup(bk)
    ELSE IF svc = "down" THEN GetLatestLocalBackup(bk)
    ELSE IF DOMAIN tb = {} THEN GetLatestLocalBackup(bk)
    ELSE IF VersionedTitles(tb) = {} THEN GetValuesSheet1(tb, bk, svc)
    ELSE tb[SortedFirstAscending(VersionedTitles(tb))]

\* get_latest_sheet_data
GetLatestSheetData(tb, bk, svc) ==
    IF svc = "absent" THEN GetLatestLocalBackup(bk)
    ELSE IF svc = "down" THEN GetLatestLocalBackup(bk)
    ELSE IF DOMAIN tb = {} THEN GetLatestLocalBackup(bk)
    ELSE IF VersionedTitles(tb) = {} THEN GetValuesSheet1(tb, bk, svc)
    ELSE tb[LatestName(VersionedTitles(tb))]

\* create_new_sheet_tab(title, values): addSheet, then values().update of the
\* header and the rows; addSheet raises when the title exists
CreateNewSheetTab(tb, title, values, svc) ==
    IF svc \in {"absent", "down"} \/ title \in DOMAIN tb THEN tb
    ELSE IF svc = "reject" THEN (title :> <<>>) @@ tb
    ELSE (title :> (<<Header>> \o values)) @@ tb

\* the test of update_shift's loops on one row: "match", "skip", or "raise"
\* (a dict of three or more keys has no key 0)
RowTest(row, target_date, target_user) ==
    IF Len(row.cells) < 3 THEN "skip"
    ELSE IF row.kind = "dict" THEN "raise"
    ELSE IF row.cells[1] = target_date /\ Lower(row.cells[3]) = Lower(target_user)
         THEN "match"
    ELSE "skip"

\* the first row the loop does not step over (0 when there is none)
FirstHit(rows, target_date, target_user) ==
    LET hits == {i \in 1..Len(rows) : RowTest(rows[i], target_date, target_user) # "skip"}
    IN IF hits = {} THEN 0 ELSE CHOOSE i \in hits : \A j \in hits : i <= j

\* update_shift, part 1: the latest local snapshot
UpdateLocal(bk, target_date, target_user, new_values) ==
    IF DOMAIN bk = {} THEN bk
    ELSE
      LET f == LatestName(DOMAIN bk)
          data == JsonLoad(bk[f])
          i == FirstHit(data, target_date, target_user)
      IN IF i # 0 /\ RowTest(data[i], target_date, target_user) = "match"
         THEN [bk EXCEPT ![f] = JsonDump([data EXCEPT ![i] = DictRow(new_values)])]
         ELSE bk

\* update_shift, part 2: the latest tab of the spreadsheet
UpdateTab(tb, target_date, target_user, new_values, svc) ==
    IF svc \in {"absent", "down"} THEN tb
    ELSE
      LET title == IF VersionedTitles(tb) = {} THEN Sheet1
                   ELSE LatestName(VersionedTitles(tb))
      IN IF title \notin DOMAIN tb THEN tb
         ELSE
           LET i == FirstHit(tb[title], target_date, target_user)
           IN IF i # 0 /\ RowTest(tb[title][i], target_date, target_user) = "match"
                 /\ svc = "up"
              THEN [tb EXCEPT ![title][i] = DictRow(new_values)]
              ELSE tb

\* whether update_shift got its change through to the spreadsheet: the
\* service answered every RPC it was sent
PushSucceeded(svc) == svc = "up"

\* ------------------------------------------------------------------------
\* ShiftStorage: the shifts table
\* ------------------------------------------------------------------------
\* A row of the table. The id column is the primary key: the calls that
\* overlap in time give their rows distinct ids, the others leave it 0.
NoRow == [user_id |-> 0]

ShiftRow(id, u, d, p, src, synced) ==
    [id |-> id, user_id |-> u, shift_date |-> d, slot_1 |-> p.slot_1,
     slot_2 |-> p.slot_2, notes |-> p.notes, source |-> src,
     synced_to_sheets |-> synced]

One(r) == SetToBag({r})

\* session.query(Shift).filter_by(user_id=u, shift_date=d): the rows a
\* .first() can return
Matching(tbl, u, d) == {r \in BagToSet(tbl) : r.user_id = u /\ r.shift_date = d}

FirstOf(tbl, u, d) == IF Matching(tbl, u, d) = {} THEN {NoRow} ELSE Matching(tbl, u, d)

RowCount(tbl, u, d) ==
    BagCardinality([r \in Matching(tbl, u, d) |-> tbl[r]])

\* the row of the table that has the primary key of a loaded row
Current(tbl, loaded) ==
    LET same == {r \in Matching(tbl, loaded.user_id, loaded.shift_date) : r.id = loaded.id}
    IN IF same = {} THEN NoRow ELSE CHOOSE r \in same : TRUE

\* save_shift's update branch forgetting the notes and the source
UpdatedRowKeepsOld(cur, loaded, p, src) ==
    [cur EXCEPT !.slot_1 = p.slot_1, !.slot_2 = p.slot_2,
                !.synced_to_sheets = FALSE]

\* save_shift's update branch without line 68
UpdatedRowLeavesSynced(cur, loaded, p, src) ==
    [cur EXCEPT !.slot_1 = p.slot_1, !.slot_2 = p.slot_2, !.notes = p.notes,
                !.source = src]

\* save_shift, lines 62-69 and the commit of line 83: the UPDATE sets the
\* columns whose assigned value differs from the value loaded
UpdatedRow(cur, loaded, p, src) ==
    [cur EXCEPT
        !.slot_1 = IF p.slot_1 # loaded.slot_1 THEN p.slot_1 ELSE @,
        !.slot_2 = IF p.slot_2 # loaded.slot_2 THEN p.slot_2 ELSE @,
        !.notes = IF p.notes # loaded.notes THEN p.notes ELSE @,
        !.source = IF src # loaded.source THEN src ELSE @,
        !.synced_to_sheets = IF loaded.synced_to_sheets THEN FALSE ELSE @]

\* save_shift always inserting
UpsertAlwaysInserts(tbl, existing, id, u, d, p, src) ==
    tbl (+) One(ShiftRow(id, u, d, p, src, FALSE))

\* save_shift, lines 62-83: update the row found, or insert a new one, commit
Upsert(tbl, existing, id, u, d, p, src) ==
    IF existing # NoRow
    THEN IF Current(tbl, existing) = NoRow THEN tbl
         ELSE (tbl (-) One(Current(tbl, existing)))
                  (+) One(UpdatedRow(Current(tbl, existing), existing, p, src))
    ELSE tbl (+) One(ShiftRow(id, u, d, p, src, FALSE))

\* session.refresh(shift), line 84: the row save_shift holds after its commit
SavedRow(tbl, existing, id, u, d) ==
    IF existing # NoRow THEN Current(tbl, existing)
    ELSE Current(tbl, [id |-> id, user_id |-> u, shift_date |-> d])

\* the values _sync_shift_to_sheets hands to update_shift
NewValues(row) ==
    [slot_1 |-> OrEmpty(row.slot_1), slot_2 |-> OrEmpty(row.slot_2),
     notes |-> OrEmpty(row.notes)]

\* the outcomes a push can meet: the states of the spreadsheet service, or
\* "raise": an exception inside _sync_shift_to_sheets's try block (the user
\* query, os.listdir in update_shift)
PushOutcomes == Services \cup {"raise"}

\* _sync_shift_to_sheets, lines 115-117: the row is marked synced once
\* update_shift has returned
MarkSynced(tbl, row, out) ==
    IF out = "raise" \/ Current(tbl, row) = NoRow THEN tbl
    ELSE (tbl (-) One(Current(tbl, row)))
             (+) One([Current(tbl, row) EXCEPT !.synced_to_sheets = TRUE])

\* get_user_shifts: the rows of the owner in the range, by date ascending
\* (NoDate stands for a start_date or end_date of None)
NoDate == [y |-> 0, m |-> 0, d |-> 0]

InRange(r, u, start, end) ==
    /\ r.user_id = u
    /\ start = NoDate \/ DateLeq(start, r.shift_date)
    /\ end = NoDate \/ DateLeq(r.shift_date, end)

RECURSIVE SortByDate(_)
SortByDate(b) ==
    IF BagToSet(b) = {} THEN <<>>
    ELSE LET r == CHOOSE x \in BagToSet(b) :
                     \A y \in BagToSet(b) : DateLeq(x.shift_date, y.shift_date)
         IN <<r>> \o SortByDate(b (-) One(r))

GetUserShifts(tbl, u, start, end) ==
    SortByDate([r \in {x \in BagToSet(tbl) : InRange(x, u, start, end)} |-> tbl[r]])

\* _sync_shift_to_sheets(session, shift), lines 92-122: the push of the row
\* save_shift holds, then the row marked synced
SyncShiftToSheets(tbl, tb, bk, row, out) ==
    LET pushed == out # "raise"
        target_date == Str(Strftime(row.shift_date))
        target_user == Users[row.user_id].name
    IN [tbl |-> MarkSynced(tbl, row, out),
        backups |-> IF pushed
                    THEN UpdateLocal(bk, target_date, target_user, NewValues(row))
                    ELSE bk,
        tabs |-> IF pushed
                 THEN UpdateTab(tb, target_date, target_user, NewValues(row), out)
                 ELSE tb,
        row |-> IF pushed THEN [row EXCEPT !.synced_to_sheets = TRUE] ELSE row]

\* save_shift, lines 55-90, given the row its query found: the table, the
\* mirror, and the Shift object returned
SaveShiftResult(tbl, tb, bk, existing, id, u, d, p, src, sync, out) ==
    LET saved == Upsert(tbl, existing, id, u, d, p, src)
        row == SavedRow(saved, existing, id, u, d)
    IN IF sync THEN SyncShiftToSheets(saved, tb, bk, row, out)
       ELSE [tbl |-> saved, backups |-> bk, tabs |-> tb, row |-> row]

\* the row .first() returns when the key has at most one row
TheRow(tbl, u, d) ==
    IF Matching(tbl, u, d) = {} THEN NoRow ELSE CHOOSE r \in Matching(tbl, u, d) : TRUE

\* bulk_save_shifts, lines 220-242: the loop over shifts_data. An item whose
\* 'date' is missing or does not parse raises inside the try and is skipped.
RECURSIVE BulkLoop(_, _, _, _, _, _)
BulkLoop(acc, items, u, src, sync, out) ==
    IF Len(items) = 0 THEN acc
    ELSE
      LET it == Head(items)
          d == IF it.date = NoneVal THEN ParseFailed ELSE Strptime(Chars(it.date))
      IN IF d = ParseFailed
         THEN BulkLoop(acc, Tail(items), u, src, sync, out)
         ELSE
           LET res == SaveShiftResult(acc.tbl, acc.tabs, acc.backups,
                                      TheRow(acc.tbl, u, d), 0, u, d, it.vals, src, sync, out)
           IN BulkLoop([tbl |-> res.tbl, tabs |-> res.tabs, backups |-> res.backups,
                        saved |-> Append(acc.saved, res.row)],
                       Tail(items), u, src, sync, out)

BulkSaveShifts(tbl, tb, bk, items, u, src, sync, out) ==
    BulkLoop([tbl |-> tbl, tabs |-> tb, backups |-> bk, saved |-> <<>>],
             items, u, src, sync, out)

\* sync_from_sheets, lines 300-326: one row of the sheet data. The row is
\* skipped when it has fewer than four cells, is another user's, or its date
\* does not parse; otherwise it is saved with source 'sheets' and
\* sync_to_sheets=False.
RowImportable(row, name) ==
    /\ Len(row.cells) >= 4
    /\ row.kind = "list"
    /\ row.cells[3] = name
    /\ Strptime(Chars(row.cells[1])) # ParseFailed

CellOrNone(row, k) == IF Len(row.cells) >= k THEN row.cells[k] ELSE NoneVal

RowPayload(row) ==
    [slot_1 |-> CellOrNone(row, 4), slot_2 |-> CellOrNone(row, 5),
     notes |-> CellOrNone(row, 6)]

\* the save_shift call of line 313
ImportRow(tbl, row, u) ==
    LET d == Strptime(Chars(row.cells[1]))
        existing == IF Matching(tbl, u, d) = {} THEN NoRow
                    ELSE CHOOSE r \in Matching(tbl, u, d) : TRUE
    IN Upsert(tbl, existing, 0, u, d, RowPayload(row), "sheets")

\* the loop over sheet_data[1:]: the table and synced_count after it
RECURSIVE PullRows(_, _, _)
PullRows(acc, rows, u) ==
    IF Len(rows) = 0 THEN acc
    ELSE IF RowImportable(Head(rows), Users[u].name)
         THEN PullRows([tbl |-> ImportRow(acc.tbl, Head(rows), u),
                        count |-> acc.count + 1], Tail(rows), u)
         ELSE PullRows(acc, Tail(rows), u)

\* sync_from_sheets(user_id): [tbl, count]
SyncFromSheets(tbl, tb, bk, u, svc) ==
    LET sheet_data == GetLatestSheetData(tb, bk, svc)
    IN IF Len(sheet_data) = 0 THEN [tbl |-> tbl, count |-> 0]
       ELSE PullRows([tbl |-> tbl, count |-> 0], Tail(sheet_data), u)

\* ------------------------------------------------------------------------
\* Credentials: the users and api_keys tables, the user cache, the blacklist
\* ------------------------------------------------------------------------
\* settings.X_API_KEY, settings.TARGET_USER_NAME and the key get_current_user
\* reads as settings.INTERNAL_API_KEY
X_API_KEY == "default_unsafe_key"
TARGET_USER_NAME == "CARLO"
INTERNAL_API_KEY == "internal_key"

\* secrets.token_urlsafe(32): the keys the model can generate
GeneratedKeys == {"gen_1", "gen_2"}

\* the tokens a request can carry
Tokens == {"key_carlo", "key_anna", X_API_KEY, INTERNAL_API_KEY} \cup GeneratedKeys

\* hashlib.sha256(key.encode()).hexdigest(): one-way, no collisions among
\* the tokens of the model
hash_key(key) == <<"sha256", key>>

\* a row of the users table (the columns the credential code reads)
UserRow(id, name, key, active, admin) ==
    [id |-> id, name |-> name, api_key |-> key, is_active |-> active,
     is_admin |-> admin]

\* what the callers read of an identity: of User.to_dict(), of a User, and of
\* the legacy dict {"name": ...} (which has no id: 0)
Identity(id, name, admin) == [id |-> id, name |-> name, is_admin |-> admin]

\* no identity: None, or HTTP 403
NoUser == Identity(0, NoneVal, FALSE)

ToDict(u) == Identity(u.id, u.name, u.is_admin)

\* json.dumps / json.loads of a user dict
RECURSIVE IntToStr(_)
IntToStr(n) == IF n < 10 THEN <<DigitChar(n)>>
               ELSE IntToStr(n \div 10) \o <<DigitChar(n % 10)>>

JsonDumpsUser(d) ==
    [id |-> IntToStr(d.id), name |-> <<"\"", d.name, "\"">>,
     is_admin |-> IF d.is_admin THEN "true" ELSE "false"]

JsonLoadsUser(j) ==
    Identity(NumVal(j.id), j.name[2], j.is_admin = "true")

\* the "user:{api_key}" entries: a function from the tokens cached to their
\* JSON text
EmptyCache == [k \in {} |-> JsonDumpsUser(Identity(0, NoneVal, FALSE))]

\* RedisCache.get_user
CacheGetUser(ch, k) == IF k \in DOMAIN ch THEN JsonLoadsUser(ch[k]) ELSE NoUser

\* RedisCache.set_user
SetUser(ch, k, d) ==
    [x \in DOMAIN ch \cup {k} |-> IF x = k THEN JsonDumpsUser(d) ELSE ch[x]]

\* RedisCache.invalidate_user
InvalidateUser(ch, k) == [x \in DOMAIN ch \ {k} |-> ch[x]]

\* RedisCache.blacklist_key, RedisCache.is_key_blacklisted
BlacklistKey(bl, k) == bl \cup {k}
IsKeyBlacklisted(bl, k) == k \in bl

\* session.query(User).filter_by(api_key=api_key, is_active=True).first()
ActiveUserByKey(us, k) ==
    LET hit == {i \in DOMAIN us : us[i].api_key = k /\ us[i].is_active}
    IN IF hit = {} THEN NoUser ELSE ToDict(us[CHOOSE i \in hit : TRUE])

\* get_user_by_key(api_key): the identity returned, the cache after the call,
\* and the stores consulted, in order
GetUserByKey(us, ch, bl, k) ==
    IF IsKeyBlacklisted(bl, k)
    THEN [ret |-> NoUser, cache |-> ch, trace |-> <<"blacklist">>]
    ELSE IF CacheGetUser(ch, k) # NoUser
    THEN [ret |-> CacheGetUser(ch, k), cache |-> ch,
          trace |-> <<"blacklist", "cache">>]
    ELSE IF ActiveUserByKey(us, k) # NoUser
    THEN [ret |-> ActiveUserByKey(us, k),
          cache |-> SetUser(ch, k, ActiveUserByKey(us, k)),
          trace |-> <<"blacklist", "cache", "db">>]
    ELSE [ret |-> NoUser, cache |-> ch, trace |-> <<"blacklist", "cache", "db">>]

\* verify_api_key(x_api_key): get_user_by_key, then the legacy key
VerifyApiKey(us, ch, bl, k) ==
    LET r == GetUserByKey(us, ch, bl, k)
    IN IF r.ret # NoUser THEN r
       ELSE IF k # NoneVal /\ k # "" /\ k = X_API_KEY
       THEN [r EXCEPT !.ret = Identity(0, TARGET_USER_NAME, FALSE)]
       ELSE r

\* db.query(User).filter_by(is_admin=True, is_active=True).first()
FirstAdmin(us) ==
    LET hit == {i \in DOMAIN us : us[i].is_admin /\ us[i].is_active}
    IN IF hit = {} THEN NoUser
       ELSE ToDict(us[CHOOSE i \in hit : \A j \in hit : i <= j])

\* db.query(User).filter_by(id=..., is_active=True).first()
ActiveUserById(us, id) ==
    IF id \in DOMAIN us /\ us[id].is_active THEN ToDict(us[id]) ELSE NoUser

\* get_current_user(api_key): the identity, and the stores consulted
GetCurrentUser(us, keys, k) ==
    IF k = NoneVal \/ k = "" THEN [ret |-> NoUser, trace |-> <<>>]
    ELSE IF k = INTERNAL_API_KEY THEN [ret |-> FirstAdmin(us), trace |-> <<"db">>]
    ELSE LET hit == {r \in keys : r.key_hash = hash_key(k) /\ r.is_active}
         IN IF hit = {} THEN [ret |-> NoUser, trace |-> <<"db">>]
            ELSE [ret |-> ActiveUserById(us, (CHOOSE r \in hit : TRUE).user_id),
                  trace |-> <<"db", "db">>]

\* the HTTP response of a route behind an authentication dependency: the
\* status, and the detail of the HTTPException
Response(ret, detail) ==
    IF ret = NoUser THEN [status |-> 403, detail |-> detail]
    ELSE [status |-> 200, detail |-> ""]

\* verify_api_key, line 32: the one HTTPException it raises
VerifyApiKeyResponse(us, ch, bl, k) ==
    Response(VerifyApiKey(us, ch, bl, k).ret, "Invalid API Key")

\* get_current_user, lines 28-63: the HTTPException of the check that failed
GetCurrentUserResponse(us, keys, k) ==
    LET r == GetCurrentUser(us, keys, k)
    IN Response(r.ret,
                IF k = NoneVal \/ k = "" THEN "API Key missing"
                ELSE IF k = INTERNAL_API_KEY
                THEN "No admin user found for internal key"
                ELSE IF Len(r.trace) = 1 THEN "Invalid API Key"
                ELSE "User associated with this key is inactive or not found")

\* the keys generate_api_key can still return: none that is or was a
\* credential
UnusedKeys(us, keys, bl) ==
    {k \in GeneratedKeys :
        /\ \A i \in DOMAIN us : us[i].api_key # k
        /\ \A r \in keys : r.key_hash # hash_key(k)
        /\ k \notin bl}

\* reset_user_key, lines 226-229
ResetCommit(us, id, new_key) == [us EXCEPT ![id].api_key = new_key]

\* delete_user, lines 185-186
DeleteCommit(us, id) == [us EXCEPT ![id].is_active = FALSE]

\* add_user(user_data): the row inserted
AddedUser(us, name, key) ==
    LET id == Cardinality(DOMAIN us) + 1
    IN [i \in DOMAIN us \cup {id} |->
           IF i = id THEN UserRow(id, name, key, TRUE, FALSE) ELSE us[i]]

\* no row of system_settings, no "setting:" entry; no "ratelimit:" entry
NoSettings == [k \in {} |-> ""]
NoCounters == [u \in {} |-> [count |-> 0, ttl |-> FALSE]]

\* the tables and the cache when the application starts
SeedUsers ==
    [i \in {1, 2} |->
        IF i = 1 THEN UserRow(1, "CARLO", "key_carlo", TRUE, TRUE)
        ELSE UserRow(2, "ANNA", "key_anna", TRUE, FALSE)]

RegistryAtStartup ==
    /\ users = SeedUsers
    /\ api_keys = {}
    /\ cache = EmptyCache
    /\ blacklist = {}
    /\ system_settings = NoSettings
    /\ setting_cache = NoSettings
    /\ ratelimit = NoCounters
    /\ redis = "up"

\* ------------------------------------------------------------------------
\* The store and its mirror, one call at a time
\* ------------------------------------------------------------------------
NoPayload == [slot_1 |-> NoneVal, slot_2 |-> NoneVal, notes |-> NoneVal]

NoCall ==
    [op |-> "none", user_id |-> 0, shift_date |-> D1, vals |-> NoPayload,
     source |-> "", sync |-> FALSE, out |-> "", replaced |-> FALSE,
     was_synced |-> FALSE, pulled |-> FALSE, ret |-> 0]

\* rows of the spreadsheet as the Sheets API returns them (trailing empty
\* cells are not returned)
RowCarlo1 == ListRow(<<"2024-03-01", "Friday", "CARLO", "07:00-15:00">>)
RowCarlo2 == ListRow(<<"2024-03-02", "Saturday", "CARLO", "09:00-13:00", "14:00-18:00", "swap">>)
RowAnna1 == ListRow(<<"2024-03-01", "Friday", "ANNA", "10:00-14:00", "", "x">>)

SampleTabs == (TabTitle(0) :> <<Header, RowCarlo1, RowAnna1>>)
SampleBackups == (BackupName(0) :> JsonDump(<<RowCarlo1, RowAnna1>>))

Init ==
    /\ shifts = EmptyBag
    /\ tabs = SampleTabs
    /\ backups = SampleBackups
    /\ now = 0
    /\ last = NoCall
    /\ RegistryAtStartup
    /\ procs = <<>>

\* save_shift(user_id, shift_date, slot_1, slot_2, notes, source, sync_to_sheets)
SaveShiftCall(u, d, p, src, sync, out) ==
    /\ sync \/ out = "up"
    /\ \E existing \in FirstOf(shifts, u, d) :
         LET res == SaveShiftResult(shifts, tabs, backups, existing, 0, u, d, p, src, sync, out)
         IN /\ shifts' = res.tbl
            /\ backups' = res.backups
            /\ tabs' = res.tabs
            /\ last' = [NoCall EXCEPT !.op = "save_shift", !.user_id = u,
                           !.shift_date = d, !.vals = p, !.source = src,
                           !.sync = sync, !.out = out,
                           !.replaced = (existing # NoRow
                                         /\ existing.slot_1 # p.slot_1),
                           !.was_synced = (existing # NoRow
                                           /\ existing.synced_to_sheets)]
    /\ UNCHANGED now
    /\ UNCHANGED <<authVars, procs, confVars>>

\* delete_shift(user_id, shift_date)
DeleteShiftCall(u, d) ==
    /\ \E existing \in FirstOf(shifts, u, d) :
         /\ shifts' = IF existing # NoRow THEN shifts (-) One(existing) ELSE shifts
         /\ last' = [NoCall EXCEPT !.op = "delete_shift", !.user_id = u,
                        !.shift_date = d, !.ret = IF existing # NoRow THEN 1 ELSE 0]
    /\ UNCHANGED <<tabs, backups, now>>
    /\ UNCHANGED <<authVars, procs, confVars>>

\* the save_shift calls of the model: an insert and an update with other
\* values for one key, and calls for another date and another owner
P1 == [slot_1 |-> "08:00-16:00", slot_2 |-> "", notes |-> ""]
P2 == [slot_1 |-> "09:00-13:00", slot_2 |-> "14:00-18:00", notes |-> "swap"]

SaveRequests ==
    { [user_id |-> 1, shift_date |-> D1, vals |-> P1, source |-> "ocr"],
      [user_id |-> 1, shift_date |-> D1, vals |-> P2, source |-> "manual"],
      [user_id |-> 1, shift_date |-> D2, vals |-> NoPayload, source |-> "manual"],
      [user_id |-> 2, shift_date |-> D1, vals |-> P2, source |-> "ocr"] }

\* list_shifts, lines 149-157: the records of the user; when there are none,
\* sync_from_sheets
ListShiftsCall(u, svc) ==
    LET all_shifts == GetUserShifts(shifts, u, NoDate, NoDate)
        res == SyncFromSheets(shifts, tabs, backups, u, svc)
    IN /\ Len(all_shifts) = 0 \/ svc = "up"
       /\ shifts' = IF Len(all_shifts) = 0 THEN res.tbl ELSE shifts
       /\ last' = [NoCall EXCEPT !.op = "list_shifts", !.user_id = u, !.out = svc,
                      !.pulled = (Len(all_shifts) = 0),
                      !.ret = IF Len(all_shifts) = 0 THEN res.count ELSE 0]
       /\ UNCHANGED <<tabs, backups, now>>
       /\ UNCHANGED <<authVars, procs, confVars>>

Next ==
    \/ \E r \in SaveRequests, sync \in BOOLEAN, out \in PushOutcomes :
           SaveShiftCall(r.user_id, r.shift_date, r.vals, r.source, sync, out)
    \/ \E u \in Owners, d \in Dates : DeleteShiftCall(u, d)
    \/ \E u \in Owners, svc \in Services \ {"reject"} : ListShiftsCall(u, svc)

vars ==
    <<shifts, tabs, backups, now, last, users, api_keys, cache, blacklist, procs,
      system_settings, setting_cache, ratelimit, redis>>

Spec == Init /\ [][Next]_vars

\* ------------------------------------------------------------------------
\* Claims about save_shift and its push, under Spec
\* ------------------------------------------------------------------------
\* the row of the key the last call was for carries the values of that call
HoldsLastValues(r) ==
    /\ r.slot_1 = last.vals.slot_1
    /\ r.slot_2 = last.vals.slot_2
    /\ r.notes = last.vals.notes
    /\ r.source = last.source

\* C1: after a save_shift for (O, D) has returned - in particular the second
\* of two successive calls with different slot values - the store holds
\* exactly one record for (O, D), and it carries that call's slot_1, slot_2,
\* notes and source.
C1_UpsertLeavesOneRecord ==
    last.op = "save_shift" =>
        /\ RowCount(shifts, last.user_id, last.shift_date) = 1
        /\ \A r \in Matching(shifts, last.user_id, last.shift_date) : HoldsLastValues(r)

\* a save_shift has just replaced a record that held other slot values
C1_Witness ==
    /\ last.op = "save_shift"
    /\ last.replaced
    /\ RowCount(shifts, last.user_id, last.shift_date) = 1

\* C4: when the push made by save_shift failed, the call returned, the record
\* is there with its new values, and its sync-state flag is false.
C4_PushFailureLeavesDirty ==
    (last.op = "save_shift" /\ last.sync /\ ~PushSucceeded(last.out)) =>
        /\ Matching(shifts, last.user_id, last.shift_date) # {}
        /\ \A r \in Matching(shifts, last.user_id, last.shift_date) :
               HoldsLastValues(r) /\ r.synced_to_sheets = FALSE

\* C8: when save_shift(O, D, ...) has returned, get_user_shifts(O, D, D)
\* returns exactly one record, with the saved values, whose sync-state is
\* true exactly when the push made inside that call succeeded.
C8_SyncStateIsPushOutcome ==
    (last.op = "save_shift" /\ last.sync) =>
        LET q == GetUserShifts(shifts, last.user_id, last.shift_date, last.shift_date)
        IN /\ Len(q) = 1
           /\ HoldsLastValues(q[1])
           /\ q[1].synced_to_sheets = PushSucceeded(last.out)

WellFormedRows(data, u) ==
    {i \in 1..Len(data) : RowImportable(data[i], Users[u].name)}

OwnerRows(tbl, u) == {r \in BagToSet(tbl) : r.user_id = u}

C5_PullYieldsSyncedRecords ==
    (last.op = "list_shifts" /\ last.pulled) =>
        LET data == GetLatestSheetData(tabs, backups, last.out)
        IN /\ Cardinality(OwnerRows(shifts, last.user_id))
                  = Cardinality(WellFormedRows(data, last.user_id))
           /\ \A r \in OwnerRows(shifts, last.user_id) :
                  r.synced_to_sheets = TRUE /\ r.source = "sheets"

\* ------------------------------------------------------------------------
\* bulk_save_shifts on batches of at most MaxBatch items
\* ------------------------------------------------------------------------
BulkDates == {"2024-03-01", "2024-03-02", "2024-3-1", "2024-02-30"}

Batches ==
    UNION {[1..n -> [date : BulkDates \cup {NoneVal}, vals : {P1, P2}]] : n \in 0..MaxBatch}

InitBulk ==
    /\ shifts \in {EmptyBag, One(ShiftRow(0, 1, D1, P2, "manual", TRUE))}
    /\ tabs = SampleTabs
    /\ backups = SampleBackups
    /\ now = 0
    /\ last = [op |-> "none", before |-> shifts]
    /\ RegistryAtStartup
    /\ procs = <<>>

\* commit_shifts, lines 120-125: bulk_save_shifts(user_id, shifts_data, 'ocr', True)
BulkSaveCall(u, items, out) ==
    LET res == BulkSaveShifts(shifts, tabs, backups, items, u, "ocr", TRUE, out)
    IN /\ last.op = "none"
       /\ shifts' = res.tbl
       /\ tabs' = res.tabs
       /\ backups' = res.backups
       /\ last' = [op |-> "bulk_save_shifts", user_id |-> u, items |-> items,
                   saved |-> res.saved, before |-> shifts]
       /\ UNCHANGED now
       /\ UNCHANGED <<authVars, procs, confVars>>

NextBulk == \E items \in Batches : BulkSaveCall(1, items, "up")

SpecBulk == InitBulk /\ [][NextBulk]_vars

\* what a date string of the batches denotes: the calendar dates written
\* 2024-03-01 (also as 2024-3-1) and 2024-03-02; the others denote no date
DenotedDate(s) ==
    CASE s = "2024-03-01" -> D1
      [] s = "2024-3-1"   -> D1
      [] s = "2024-03-02" -> D2
      [] OTHER            -> NoDate

\* the items of a batch that denote a date, in input order
RECURSIVE GoodItems(_)
GoodItems(items) ==
    IF Len(items) = 0 THEN <<>>
    ELSE IF DenotedDate(Head(items).date) = NoDate THEN GoodItems(Tail(items))
    ELSE <<Head(items)>> \o GoodItems(Tail(items))

\* C6: bulk_save_shifts returns exactly the items whose date is parseable, in
\* input order, each under its own date with its own values; an item with an
\* unparsable date creates no record: the dates of the owner's records are
\* those held before and those of the parseable items.
C6_BulkSkipsUnparsable ==
    last.op = "bulk_save_shifts" =>
        LET good == GoodItems(last.items)
        IN /\ Len(last.saved) = Len(good)
           /\ \A i \in 1..Len(good) :
                  /\ last.saved[i].shift_date = DenotedDate(good[i].date)
                  /\ last.saved[i].user_id = last.user_id
                  /\ last.saved[i].slot_1 = good[i].vals.slot_1
                  /\ last.saved[i].slot_2 = good[i].vals.slot_2
                  /\ last.saved[i].notes = good[i].vals.notes
           /\ {r.shift_date : r \in OwnerRows(shifts, last.user_id)}
                  = {r.shift_date : r \in OwnerRows(last.before, last.user_id)}
                    \cup {DenotedDate(good[i].date) : i \in 1..Len(good)}
           /\ \A d \in Dates : RowCount(shifts, last.user_id, d) <= 1

\* a batch of three whose second item has an unparsable date came back as two
C6_Witness ==
    /\ last.op = "bulk_save_shifts"
    /\ Len(last.items) = 3
    /\ DenotedDate(last.items[1].date) # NoDate
    /\ DenotedDate(last.items[2].date) = NoDate
    /\ DenotedDate(last.items[3].date) # NoDate
    /\ Len(last.saved) = 2

\* ------------------------------------------------------------------------
\* The local versioned snapshots: publish, read back, update
\* ------------------------------------------------------------------------
RowCarloNull ==
    ListRow(<<"2024-03-02", "Saturday", "CARLO", "09:00-13:00", NoneVal, "swap">>)

\* the record lists published
RecordLists == { <<>>, <<RowCarlo1, RowAnna1>>, <<RowCarloNull>> }

NoFiles == [f \in {} |-> <<>>]

InitSnap ==
    /\ shifts = EmptyBag
    /\ tabs = SampleTabs
    /\ backups = NoFiles
    /\ now = 8
    /\ last = [op |-> "none"]
    /\ RegistryAtStartup
    /\ procs = <<>>

\* the wall clock advances
Tick ==
    /\ now < MaxClock
    /\ now' = now + 1
    /\ last' = [op |-> "tick"]
    /\ UNCHANGED <<shifts, tabs, backups>>
    /\ UNCHANGED <<authVars, procs, confVars>>

\* save_versioned_local(turni)
Publish ==
    \E turni \in RecordLists :
        /\ Cardinality(DOMAIN backups \cup {BackupName(now)}) <= MaxFiles
        /\ backups' = SaveVersionedLocal(backups, now, turni)
        /\ last' = [op |-> "save_versioned_local", turni |-> turni]
        /\ UNCHANGED <<shifts, tabs, now>>
        /\ UNCHANGED <<authVars, procs, confVars>>

\* get_latest_sheet_data()
ReadLatest ==
    \E svc \in {"up", "absent", "down"} :
        /\ last' = [op |-> "get_latest_sheet_data", out |-> svc,
                    after_publish |-> (last.op = "save_versioned_local"),
                    published |-> IF last.op = "save_versioned_local"
                                  THEN last.turni ELSE <<>>,
                    ret |-> GetLatestSheetData(tabs, backups, svc)]
        /\ UNCHANGED <<shifts, tabs, backups, now>>
        /\ UNCHANGED <<authVars, procs, confVars>>

\* update_shift(target_date, target_user, new_values) with no spreadsheet
\* service: the latest local snapshot only
UpdateShiftLocal ==
    \E r \in {rq \in SaveRequests : rq.user_id = 1} :
        /\ backups' = UpdateLocal(backups, Str(Strftime(r.shift_date)),
                                  Users[r.user_id].name,
                                  [slot_1 |-> OrEmpty(r.vals.slot_1),
                                   slot_2 |-> OrEmpty(r.vals.slot_2),
                                   notes |-> OrEmpty(r.vals.notes)])
        /\ backups' # backups
        /\ last' = [op |-> "update_shift"]
        /\ UNCHANGED <<shifts, tabs, now>>
        /\ UNCHANGED <<authVars, procs, confVars>>

NextSnap == Tick \/ Publish \/ ReadLatest \/ UpdateShiftLocal

SpecSnap == InitSnap /\ [][NextSnap]_vars

\* C7: save_versioned_local(R) followed by get_latest_sheet_data with the
\* spreadsheet transport failing returns exactly R.
C7_PublishThenLatestRoundTrip ==
    (last.op = "get_latest_sheet_data" /\ last.after_publish
        /\ last.out \in {"absent", "down"}) =>
        last.ret = last.published

\* a non-empty list was read back while an older snapshot file existed
C7_Witness ==
    /\ last.op = "get_latest_sheet_data"
    /\ last.after_publish
    /\ last.out = "down"
    /\ Cardinality(DOMAIN backups) >= 2
    /\ Len(last.ret) > 0
    /\ last.ret = last.published

\* C21: a local snapshot file is never modified after its creation: every
\* file keeps its content, whatever update_shift or a later
\* save_versioned_local does.
C21_SnapshotsNeverModified ==
    [][\A f \in DOMAIN backups :
          f \in DOMAIN backups' /\ backups'[f] = backups[f]]_vars


\* C40: every save_versioned_local creates a file whose name is distinct from
\* and sorts after all existing snapshots: the directory is append-only and
\* grows by one file per publish, also for two publishes within one second.
C40_PublishAppendsOneSnapshot ==
    [][last'.op = "save_versioned_local" =>
          /\ Cardinality(DOMAIN backups') = Cardinality(DOMAIN backups) + 1
          /\ \A g \in DOMAIN backups :
                g \in DOMAIN backups' /\ backups'[g] = backups[g]
          /\ \A f \in DOMAIN backups' \ DOMAIN backups :
                \A g \in DOMAIN backups : LexLess(g, f)]_vars


\* ------------------------------------------------------------------------
\* The credential registry, one call at a time
\* ------------------------------------------------------------------------
\* the call that returned last: for a call of the registry the token, the
\* identity resolved, the stores consulted; for a call of SettingsStorage the
\* key, the value or default, what Redis held for the key, the set_setting
\* before it (prev); for check_rate_limit the calls let through in the running
\* window of each identity (allowed); rd: the cache backend during the call
RateUsers == {1, 2}

NoAuthCall ==
    [op |-> "none", token |-> NoneVal, ret |-> NoUser, trace |-> <<>>,
     blacklisted |-> FALSE, key |-> "", value |-> NoneVal, cached |-> NoneVal,
     rd |-> "up", prev |-> <<>>, user_id |-> 0, limit |-> 0,
     allowed |-> [u \in RateUsers |-> 0]]

InitAuth ==
    /\ shifts = EmptyBag
    /\ tabs = SampleTabs
    /\ backups = SampleBackups
    /\ now = 0
    /\ last = NoAuthCall
    /\ RegistryAtStartup
    /\ procs = <<>>

\* a request to a route that depends on verify_api_key
VerifyApiKeyCall(k) ==
    LET r == VerifyApiKey(users, cache, blacklist, k)
    IN /\ cache' = r.cache
       /\ last' = [op |-> "verify_api_key", token |-> k, ret |-> r.ret,
                   trace |-> r.trace,
                   blacklisted |-> IsKeyBlacklisted(blacklist, k),
                   resp |-> VerifyApiKeyResponse(users, cache, blacklist, k)]
       /\ UNCHANGED <<users, api_keys, blacklist, sheetVars, procs, confVars>>

\* a request to a route that depends on get_current_user
GetCurrentUserCall(k) ==
    LET r == GetCurrentUser(users, api_keys, k)
    IN /\ last' = [op |-> "get_current_user", token |-> k, ret |-> r.ret,
                   trace |-> r.trace,
                   blacklisted |-> IsKeyBlacklisted(blacklist, k),
                   resp |-> GetCurrentUserResponse(users, api_keys, k)]
       /\ UNCHANGED <<authVars, sheetVars, procs, confVars>>

\* add_user(user_data): 'api_key' given, or generated
AddUserCall(key) ==
    /\ Cardinality(DOMAIN users) < MaxUsers
    /\ key = NoneVal \/ \A i \in DOMAIN users : users[i].api_key # key
    /\ \E k \in (IF key = NoneVal THEN UnusedKeys(users, api_keys, blacklist)
                 ELSE {key}) :
          users' = AddedUser(users, "LUCA", k)
    /\ last' = [NoAuthCall EXCEPT !.op = "add_user", !.token = key]
    /\ UNCHANGED <<api_keys, cache, blacklist, sheetVars, procs, confVars>>

\* reset_user_key(user_id)
ResetUserKeyCall(id) ==
    /\ IF id \in DOMAIN users
       THEN \E new_key \in UnusedKeys(users, api_keys, blacklist) :
              /\ blacklist' = (IF redis = "up"
                               THEN BlacklistKey(blacklist, users[id].api_key)
                               ELSE blacklist)
              /\ cache' = (IF redis = "up"
                           THEN InvalidateUser(cache, users[id].api_key)
                           ELSE cache)
              /\ users' = ResetCommit(users, id, new_key)
              /\ last' = [NoAuthCall EXCEPT !.op = "reset_user_key",
                                            !.token = users[id].api_key]
       ELSE /\ last' = [NoAuthCall EXCEPT !.op = "reset_user_key"]
            /\ UNCHANGED <<users, cache, blacklist>>
    /\ UNCHANGED <<api_keys, sheetVars, procs, confVars>>

\* reset_user_key(user_id) when session.commit() (line 229) raises: the
\* blacklisting and the invalidation of lines 222-223 are done, get_session
\* rolls the new key back, the except of line 234 returns None
ResetUserKeyCommitFails(id) ==
    /\ id \in DOMAIN users
    /\ blacklist' = (IF redis = "up"
                     THEN BlacklistKey(blacklist, users[id].api_key)
                     ELSE blacklist)
    /\ cache' = (IF redis = "up"
                 THEN InvalidateUser(cache, users[id].api_key)
                 ELSE cache)
    /\ last' = [NoAuthCall EXCEPT !.op = "reset_user_key",
                                  !.token = users[id].api_key,
                                  !.user_id = id,
                                  !.value = "commit failed"]
    /\ UNCHANGED <<users, api_keys, sheetVars, procs, confVars>>

\* delete_user(user_id)
DeleteUserCall(id) ==
    /\ IF id \in DOMAIN users
       THEN /\ users' = DeleteCommit(users, id)
            /\ blacklist' = (IF redis = "up"
                             THEN BlacklistKey(blacklist, users[id].api_key)
                             ELSE blacklist)
            /\ cache' = (IF redis = "up"
                         THEN InvalidateUser(cache, users[id].api_key)
                         ELSE cache)
            /\ last' = [NoAuthCall EXCEPT !.op = "delete_user",
                                          !.token = users[id].api_key]
       ELSE /\ last' = [NoAuthCall EXCEPT !.op = "delete_user"]
            /\ UNCHANGED <<users, cache, blacklist>>
    /\ UNCHANGED <<api_keys, sheetVars, procs, confVars>>

\* create_api_key(user_id) by the caller get_current_user resolves
CreateApiKeyCall(k, user_id) ==
    LET caller == GetCurrentUser(users, api_keys, k).ret
    IN /\ caller # NoUser
       /\ caller.is_admin \/ caller.id = user_id
       /\ user_id \in DOMAIN users
       /\ \E raw_key \in UnusedKeys(users, api_keys, blacklist) :
            /\ api_keys' = api_keys \cup
                   {[user_id |-> user_id, key_hash |-> hash_key(raw_key),
                     is_active |-> TRUE]}
            /\ last' = [NoAuthCall EXCEPT !.op = "create_api_key",
                                          !.token = raw_key]
       /\ UNCHANGED <<users, cache, blacklist, sheetVars, procs, confVars>>

\* migrate_users(): one entry of config/users.json, whose 'api_key' may be
\* absent (None) or empty; the row is skipped when one with that key exists
MigrateUsersCall(key) ==
    /\ Cardinality(DOMAIN users) < MaxUsers
    /\ users' = (IF \E i \in DOMAIN users : users[i].api_key = key
                 THEN users ELSE AddedUser(users, "LUCA", key))
    /\ last' = [NoAuthCall EXCEPT !.op = "migrate_users", !.token = key]
    /\ UNCHANGED <<api_keys, cache, blacklist, sheetVars, procs, confVars>>

NextAuth ==
    \/ \E k \in Tokens \cup {NoneVal, ""} : VerifyApiKeyCall(k)
    \/ \E k \in Tokens \cup {NoneVal, ""} : GetCurrentUserCall(k)
    \/ \E key \in {NoneVal, ""} : MigrateUsersCall(key)
    \/ \E key \in {NoneVal, X_API_KEY, INTERNAL_API_KEY} : AddUserCall(key)
    \/ \E id \in 1..MaxUsers : ResetUserKeyCall(id)
    \/ \E id \in {2} : ResetUserKeyCommitFails(id)
    \/ \E id \in 1..MaxUsers : DeleteUserCall(id)
    \/ \E k \in Tokens, id \in 1..MaxUsers : CreateApiKeyCall(k, id)

SpecAuth == InitAuth /\ [][NextAuth]_vars

\* C9: an authentication entry point consults the blacklist before it reads
\* the cache or the durable store, and a blacklisted token resolves to no
\* identity, whichever entry point it is presented to.
C9_BlacklistBeforeAnyLookup ==
    last.op \in {"verify_api_key", "get_current_user"} =>
        /\ (\E i \in DOMAIN last.trace : last.trace[i] \in {"cache", "db"})
               => last.trace[1] = "blacklist"
        /\ last.blacklisted => last.ret = NoUser

\* C10: the master/internal key and the legacy key, once blacklisted, no
\* longer authenticate.
C10_RevokedMasterKeyRejected ==
    (last.op \in {"verify_api_key", "get_current_user"} /\ last.blacklisted
        /\ last.token \in {INTERNAL_API_KEY, X_API_KEY}) =>
        last.ret = NoUser

\* C12: a request with an empty or a missing token resolves to no identity
\* (403) on both entry points, whatever the cache and the users table hold.
C12_EmptyTokenForbidden ==
    (last.op \in {"verify_api_key", "get_current_user"}
        /\ last.token \in {NoneVal, ""}) => last.ret = NoUser

\* a request with a token (unknown, blacklisted, or of an inactive identity:
\* not the internal key, which names no identity) that was answered 403
RejectedToken(c) ==
    /\ c.op \in {"verify_api_key", "get_current_user"}
    /\ c.token \in Tokens \ {INTERNAL_API_KEY}
    /\ c.resp.status = 403

\* C26: authentication failures are indistinguishable: two rejected tokens
\* presented one after the other to the same entry point get responses with
\* the same status and the same detail.
C26_RejectionsIndistinguishable ==
    [][(RejectedToken(last) /\ RejectedToken(last') /\ last'.op = last.op) =>
           last'.resp = last.resp]_vars

\* C35: reset_user_key is atomic on failure: when it returns None because
\* the commit of the new credential failed, the old credential (of an active
\* user) is not blacklisted and still authenticates.
C35_FailedResetKeepsOldKeyValid ==
    (last.op = "reset_user_key" /\ last.value = "commit failed"
        /\ users[last.user_id].is_active) =>
        /\ users[last.user_id].api_key = last.token
        /\ ~IsKeyBlacklisted(blacklist, last.token)
        /\ GetUserByKey(users, cache, blacklist, last.token).ret # NoUser

\* ------------------------------------------------------------------------
\* get_user_by_key calls racing a revocation, one store access at a time
\* ------------------------------------------------------------------------
AuthProcs == 1..NumAuth
Revoker == 0

IdleAuth == [pc |-> "idle", token |-> NoneVal, user |-> NoUser]

IdleRevoker ==
    [pc |-> "idle", user_id |-> 0, old_key |-> NoneVal, revoked |-> {},
     steps |-> <<>>]

InitRevoke ==
    /\ shifts = EmptyBag
    /\ tabs = SampleTabs
    /\ backups = SampleBackups
    /\ now = 0
    /\ last = [op |-> "none", token |-> NoneVal, ret |-> NoUser, revoked |-> FALSE]
    /\ RegistryAtStartup
    /\ procs = [p \in {Revoker} \cup AuthProcs |->
                   IF p = Revoker THEN IdleRevoker ELSE IdleAuth]

\* get_user_by_key returns ret: revoked tells whether a revocation of the
\* token had already returned
Returned(p, ret) ==
    /\ last' = [op |-> "get_user_by_key", token |-> procs[p].token, ret |-> ret,
                revoked |-> procs[p].token \in procs[Revoker].revoked]

\* line 39: is_key_blacklisted
AuthCheckBlacklist(p, k) ==
    /\ procs[p].pc = "idle"
    /\ IF IsKeyBlacklisted(blacklist, k)
       THEN /\ procs' = [procs EXCEPT ![p] = [IdleAuth EXCEPT !.token = k]]
            /\ last' = [op |-> "get_user_by_key", token |-> k, ret |-> NoUser,
                        revoked |-> k \in procs[Revoker].revoked]
       ELSE /\ procs' = [procs EXCEPT ![p] = [IdleAuth EXCEPT !.pc = "cache",
                                                             !.token = k]]
            /\ UNCHANGED last
    /\ UNCHANGED <<authVars, sheetVars, confVars>>

\* lines 44-46: the cache
AuthReadCache(p) ==
    /\ procs[p].pc = "cache"
    /\ IF CacheGetUser(cache, procs[p].token) # NoUser
       THEN /\ procs' = [procs EXCEPT ![p].pc = "idle"]
            /\ Returned(p, CacheGetUser(cache, procs[p].token))
       ELSE /\ procs' = [procs EXCEPT ![p].pc = "db"]
            /\ UNCHANGED last
    /\ UNCHANGED <<authVars, sheetVars, confVars>>

\* lines 49-53 and 58: the users table
AuthReadDb(p) ==
    /\ procs[p].pc = "db"
    /\ IF ActiveUserByKey(users, procs[p].token) # NoUser
       THEN /\ procs' = [procs EXCEPT ![p].pc = "set_user",
                             ![p].user = ActiveUserByKey(users, procs[p].token)]
            /\ UNCHANGED last
       ELSE /\ procs' = [procs EXCEPT ![p].pc = "idle"]
            /\ Returned(p, NoUser)
    /\ UNCHANGED <<authVars, sheetVars, confVars>>

\* lines 55-56: set_user, return
AuthSetCache(p) ==
    /\ procs[p].pc = "set_user"
    /\ cache' = SetUser(cache, procs[p].token, procs[p].user)
    /\ procs' = [procs EXCEPT ![p].pc = "idle"]
    /\ Returned(p, procs[p].user)
    /\ UNCHANGED <<users, api_keys, blacklist, sheetVars, confVars>>

\* reset_user_key, lines 214-221: the user is loaded
ResetRead(id) ==
    /\ procs[Revoker].pc = "idle"
    /\ Cardinality(procs[Revoker].revoked) < MaxRevocations
    /\ UnusedKeys(users, api_keys, blacklist) # {}
    /\ procs' = [procs EXCEPT ![Revoker].pc = "reset_blacklist",
                              ![Revoker].user_id = id,
                              ![Revoker].steps = <<>>,
                              ![Revoker].old_key = users[id].api_key]
    /\ UNCHANGED <<authVars, sheetVars, last, confVars>>

\* line 222
ResetBlacklistStep ==
    /\ procs[Revoker].pc = "reset_blacklist"
    /\ blacklist' = BlacklistKey(blacklist, procs[Revoker].old_key)
    /\ procs' = [procs EXCEPT ![Revoker].pc = "reset_invalidate",
                              ![Revoker].steps = Append(@, "blacklist")]
    /\ UNCHANGED <<users, api_keys, cache, sheetVars, last, confVars>>

\* line 223
ResetInvalidateStep ==
    /\ procs[Revoker].pc = "reset_invalidate"
    /\ cache' = InvalidateUser(cache, procs[Revoker].old_key)
    /\ procs' = [procs EXCEPT ![Revoker].pc = "reset_commit",
                              ![Revoker].steps = Append(@, "invalidate")]
    /\ UNCHANGED <<users, api_keys, blacklist, sheetVars, last, confVars>>

\* lines 226-232: the new key is committed and returned
ResetCommitStep ==
    /\ procs[Revoker].pc = "reset_commit"
    /\ \E new_key \in UnusedKeys(users, api_keys, blacklist) :
           users' = ResetCommit(users, procs[Revoker].user_id, new_key)
    /\ procs' = [procs EXCEPT ![Revoker].pc = "idle",
                    ![Revoker].steps = Append(@, "commit"),
                    ![Revoker].revoked = @ \cup {procs[Revoker].old_key}]
    /\ UNCHANGED <<api_keys, cache, blacklist, sheetVars, last, confVars>>

\* delete_user, line 178: the user is loaded
DeleteRead(id) ==
    /\ procs[Revoker].pc = "idle"
    /\ Cardinality(procs[Revoker].revoked) < MaxRevocations
    /\ procs' = [procs EXCEPT ![Revoker].pc = "delete_commit",
                              ![Revoker].steps = <<>>,
                              ![Revoker].user_id = id]
    /\ UNCHANGED <<authVars, sheetVars, last, confVars>>

\* lines 185-186
DeleteCommitStep ==
    /\ procs[Revoker].pc = "delete_commit"
    /\ users' = DeleteCommit(users, procs[Revoker].user_id)
    /\ procs' = [procs EXCEPT ![Revoker].pc = "delete_blacklist",
                    ![Revoker].steps = Append(@, "commit"),
                    ![Revoker].old_key = users[procs[Revoker].user_id].api_key]
    /\ UNCHANGED <<api_keys, cache, blacklist, sheetVars, last, confVars>>

\* line 189
DeleteBlacklistStep ==
    /\ procs[Revoker].pc = "delete_blacklist"
    /\ blacklist' = BlacklistKey(blacklist, procs[Revoker].old_key)
    /\ procs' = [procs EXCEPT ![Revoker].pc = "delete_invalidate",
                              ![Revoker].steps = Append(@, "blacklist")]
    /\ UNCHANGED <<users, api_keys, cache, sheetVars, last, confVars>>

\* lines 192-195: the entry is invalidated and the call returns
DeleteInvalidateStep ==
    /\ procs[Revoker].pc = "delete_invalidate"
    /\ cache' = InvalidateUser(cache, procs[Revoker].old_key)
    /\ procs' = [procs EXCEPT ![Revoker].pc = "idle",
                    ![Revoker].steps = Append(@, "invalidate"),
                    ![Revoker].revoked = @ \cup {procs[Revoker].old_key}]
    /\ UNCHANGED <<users, api_keys, blacklist, sheetVars, last, confVars>>

\* the tokens presented are those of the two seeded users
NextRevoke ==
    \/ \E p \in AuthProcs, k \in {"key_carlo", "key_anna"} : AuthCheckBlacklist(p, k)
    \/ \E p \in AuthProcs : AuthReadCache(p)
    \/ \E p \in AuthProcs : AuthReadDb(p)
    \/ \E p \in AuthProcs : AuthSetCache(p)
    \/ \E id \in DOMAIN users : ResetRead(id)
    \/ ResetBlacklistStep
    \/ ResetInvalidateStep
    \/ ResetCommitStep
    \/ \E id \in DOMAIN users : DeleteRead(id)
    \/ DeleteCommitStep
    \/ DeleteBlacklistStep
    \/ DeleteInvalidateStep

SpecRevoke == InitRevoke /\ [][NextRevoke]_vars

\* C2: a get_user_by_key for a token whose revocation (reset_user_key or
\* delete_user) has returned - the call being in progress while the
\* revocation ran, or made after it - returns no identity.
C2_RevocationWins ==
    (last.op = "get_user_by_key" /\ last.revoked) => last.ret = NoUser

\* C13: a revocation (reset_user_key, delete_user) blacklists the old
\* credential, then invalidates its cache entry, and only then changes the
\* durable store: the store is never changed while the old credential is
\* neither blacklisted nor invalidated.
C13_BlacklistInvalidateThenStore ==
    LET s == procs[Revoker].steps
    IN \A i \in DOMAIN s :
          s[i] = "commit" =>
              /\ \E j \in 1..(i - 1) : s[j] = "blacklist"
              /\ \E j \in 1..(i - 1) : s[j] = "invalidate"

\* C17: an operation that writes the durable store for a cached entity
\* invalidates the cache entry after its commit, before it returns.
C17_InvalidateAfterCommit ==
    LET s == procs[Revoker].steps
    IN \A i \in DOMAIN s :
          s[i] = "invalidate" => \E j \in 1..(i - 1) : s[j] = "commit"

\* ------------------------------------------------------------------------
\* save_shift calls in parallel, one transaction step at a time
\* ------------------------------------------------------------------------
Savers == 1..NumSavers

IdleSaver ==
    [pc |-> "idle", user_id |-> 0, shift_date |-> D1, vals |-> NoPayload,
     source |-> "", sync |-> FALSE, existing |-> NoRow, row |-> NoRow]

\* the store is empty, or holds a record of user 1 pulled from the sheet
InitConc ==
    /\ shifts \in {EmptyBag, One(ShiftRow(0, 1, D1, NoPayload, "sheets", FALSE))}
    /\ tabs = SampleTabs
    /\ backups = SampleBackups
    /\ now = 0
    /\ last = NoCall
    /\ RegistryAtStartup
    /\ procs = [p \in Savers |-> IdleSaver]

SaveReturned(p, out) ==
    last' = [NoCall EXCEPT !.op = "save_shift", !.user_id = procs[p].user_id,
                           !.shift_date = procs[p].shift_date,
                           !.vals = procs[p].vals, !.source = procs[p].source,
                           !.sync = procs[p].sync, !.out = out, !.ret = p]

\* lines 57-60: the SELECT of the call's transaction
SaveQuery(p, r, sync) ==
    /\ procs[p].pc = "idle"
    /\ \E existing \in FirstOf(shifts, r.user_id, r.shift_date) :
         procs' = [procs EXCEPT ![p] =
                      [pc |-> "queried", user_id |-> r.user_id,
                       shift_date |-> r.shift_date, vals |-> r.vals,
                       source |-> r.source, sync |-> sync,
                       existing |-> existing, row |-> NoRow]]
    /\ UNCHANGED <<sheetVars, last, authVars, confVars>>

\* lines 62-84: the UPDATE or INSERT, the commit and the refresh; the new
\* row's id is the call's
SaveCommit(p) ==
    LET c == procs[p]
        saved == Upsert(shifts, c.existing, p, c.user_id, c.shift_date,
                        c.vals, c.source)
    IN /\ c.pc = "queried"
       /\ shifts' = saved
       /\ procs' = [procs EXCEPT
               ![p].pc = IF c.sync THEN "push" ELSE "done",
               ![p].row = SavedRow(saved, c.existing, p, c.user_id, c.shift_date)]
       /\ IF c.sync THEN UNCHANGED last ELSE SaveReturned(p, "")
       /\ UNCHANGED <<tabs, backups, now, authVars, confVars>>

\* lines 87-90: _sync_shift_to_sheets, return
SavePush(p, out) ==
    LET res == SyncShiftToSheets(shifts, tabs, backups, procs[p].row, out)
    IN /\ procs[p].pc = "push"
       /\ shifts' = res.tbl
       /\ tabs' = res.tabs
       /\ backups' = res.backups
       /\ procs' = [procs EXCEPT ![p].pc = "done", ![p].row = res.row]
       /\ SaveReturned(p, out)
       /\ UNCHANGED <<now, authVars, confVars>>

\* delete_shift(user_id, shift_date), called while no save_shift is between
\* its query and its return
DeleteShiftQuiescent(u, d) ==
    /\ \A p \in Savers : procs[p].pc \in {"idle", "done"}
    /\ DeleteShiftCall(u, d)

\* the calls are user 1's: two payloads for one date, and another date
NextConc ==
    \/ \E p \in Savers, sync \in BOOLEAN :
           \E r \in {rq \in SaveRequests : rq.user_id = 1} : SaveQuery(p, r, sync)
    \/ \E p \in Savers : SaveCommit(p)
    \/ \E p \in Savers, out \in {"up", "down"} : SavePush(p, out)
    \/ \E d \in Dates : DeleteShiftQuiescent(1, d)

SpecConc == InitConc /\ [][NextConc]_vars

\* C3: whatever the interleaving of save_shift calls for one (owner, date),
\* once they have all returned the store holds at most one record for it.
C3_ConcurrentUpsertsLeaveOneRecord ==
    (\A p \in Savers : procs[p].pc = "done") =>
        \A u \in Owners, d \in Dates : RowCount(shifts, u, d) <= 1

\* C15: when the save_shift calls have all returned and the last of them
\* pushed to the mirror, a record of its key that is marked synced holds the
\* values that were pushed last.
C15_SyncedRecordIsTheOnePushed ==
    ((\A p \in Savers : procs[p].pc = "done")
        /\ last.op = "save_shift" /\ last.sync /\ last.out = "up") =>
        \A r \in Matching(shifts, last.user_id, last.shift_date) :
            r.synced_to_sheets => HoldsLastValues(r)

\* C29: delete_shift(owner, date) returns true iff a record for (owner, date)
\* existed; afterwards no record for (owner, date) exists, every other record
\* is unchanged, and a second delete of the same key returns false.
C29_DeleteRemovesTheKey ==
    [][(procs' = procs /\ last'.op = "delete_shift") =>
          LET u == last'.user_id
              d == last'.shift_date
          IN /\ (last'.ret = 1) <=> (Matching(shifts, u, d) # {})
             /\ Matching(shifts', u, d) = {}
             /\ \A r \in BagToSet(shifts) \cup BagToSet(shifts') :
                   (r.user_id # u \/ r.shift_date # d) =>
                       CopiesIn(r, shifts') = CopiesIn(r, shifts)
             /\ (last.op = "delete_shift" /\ last.user_id = u
                    /\ last.shift_date = d) => last'.ret = 0]_vars

\* ------------------------------------------------------------------------
\* SettingsStorage and the rate limiter, one call at a time
\* ------------------------------------------------------------------------
SettingKeys == {"VISION_MODEL", "vision_model"}
SettingValues == {"gemini-2.5-flash", "gemini-2.5-pro"}
Defaults == {NoneVal, "gemini-2.5-flash"}
Limits == 0..MaxLimit

\* RedisCache.get_setting, had it answered from the entries it last saw
CachedSettingIgnoresBackend(rd, ch, key) ==
    IF key \in DOMAIN ch THEN ch[key] ELSE NoneVal

\* RedisCache.get_setting: None when the backend raises or is uninitialised
CachedSetting(rd, ch, key) ==
    IF rd = "up" /\ key \in DOMAIN ch THEN ch[key] ELSE NoneVal

\* RedisCache.set_setting
CacheSetting(rd, ch, key, value) ==
    IF rd = "up"
    THEN [k \in DOMAIN ch \cup {key} |-> IF k = key THEN value ELSE ch[k]]
    ELSE ch

\* RedisCache.invalidate_setting
InvalidateSetting(rd, ch, key) ==
    IF rd = "up" THEN [k \in DOMAIN ch \ {key} |-> ch[k]] ELSE ch

\* SettingsStorage.get_setting(key, default): what it returns and the cache
\* after the call
GetSetting(rd, tbl, ch, key, default) ==
    IF CachedSetting(rd, ch, key) # NoneVal
    THEN [ret |-> CachedSetting(rd, ch, key), cache |-> ch]
    ELSE IF key \in DOMAIN tbl
    THEN [ret |-> tbl[key], cache |-> CacheSetting(rd, ch, key, tbl[key])]
    ELSE [ret |-> default, cache |-> ch]

\* SettingsStorage.set_setting(key, value), db_ok: the session commits
SetSettingNoInvalidate(rd, tbl, ch, key, value, db_ok) ==
    IF db_ok
    THEN [ret |-> TRUE, cache |-> ch,
          table |-> [k \in DOMAIN tbl \cup {key} |->
                        IF k = key THEN value ELSE tbl[k]]]
    ELSE [ret |-> FALSE, table |-> tbl, cache |-> ch]

SetSetting(rd, tbl, ch, key, value, db_ok) ==
    IF db_ok
    THEN [ret |-> TRUE, cache |-> InvalidateSetting(rd, ch, key),
          table |-> [k \in DOMAIN tbl \cup {key} |->
                        IF k = key THEN value ELSE tbl[k]]]
    ELSE [ret |-> FALSE, table |-> tbl, cache |-> ch]

\* RedisCache.check_rate_limit(user_id, limit): the counter is the decimal
\* text Redis keeps; ttl tells whether the entry expires
CheckRateLimit(rd, rl, user_id, limit) ==
    IF rd # "up" THEN [ret |-> TRUE, counters |-> rl]
    ELSE IF user_id \notin DOMAIN rl
    THEN [ret |-> TRUE,
          counters |-> [u \in DOMAIN rl \cup {user_id} |->
                           IF u = user_id THEN [count |-> IntToStr(1), ttl |-> TRUE]
                           ELSE rl[u]]]
    ELSE IF NumVal(rl[user_id].count) >= limit
    THEN [ret |-> FALSE, counters |-> rl]
    ELSE [ret |-> TRUE,
          counters |-> [rl EXCEPT ![user_id].count =
                                      IntToStr(NumVal(rl[user_id].count) + 1)]]

NoConfCall == [NoAuthCall EXCEPT !.ret = NoneVal]

\* what a get_setting remembers of the call before it: a set_setting
Summary(c) ==
    IF c.op = "set_setting"
    THEN <<[op |-> c.op, key |-> c.key, value |-> c.value, ret |-> c.ret,
            cached |-> c.cached]>>
    ELSE <<>>

InitSettings ==
    /\ shifts = EmptyBag
    /\ tabs = SampleTabs
    /\ backups = SampleBackups
    /\ now = 0
    /\ last = NoConfCall
    /\ RegistryAtStartup
    /\ procs = <<>>

GetSettingCall(key, default) ==
    LET r == GetSetting(redis, system_settings, setting_cache, key, default)
    IN /\ setting_cache' = r.cache
       /\ last' = [NoConfCall EXCEPT !.op = "get_setting", !.key = key,
                               !.value = default, !.ret = r.ret,
                               !.cached = CachedSetting(redis, setting_cache, key),
                               !.rd = redis, !.prev = Summary(last)]
       /\ UNCHANGED <<system_settings, ratelimit, redis, sheetVars, authVars, procs>>

SetSettingCall(key, value, db_ok) ==
    LET r == SetSetting(redis, system_settings, setting_cache, key, value, db_ok)
    IN /\ system_settings' = r.table
       /\ setting_cache' = r.cache
       /\ last' = [NoConfCall EXCEPT !.op = "set_setting", !.key = key,
                               !.value = value, !.ret = r.ret,
                               !.cached = IF key \in DOMAIN setting_cache
                                          THEN setting_cache[key] ELSE NoneVal,
                               !.rd = redis]
       /\ UNCHANGED <<ratelimit, redis, sheetVars, authVars, procs>>

\* SettingsStorage.delete_setting(key)
DeleteSettingCall(key) ==
    /\ IF key \in DOMAIN system_settings
       THEN /\ system_settings' =
                  [k \in DOMAIN system_settings \ {key} |-> system_settings[k]]
            /\ setting_cache' = InvalidateSetting(redis, setting_cache, key)
       ELSE UNCHANGED <<system_settings, setting_cache>>
    /\ last' = [NoConfCall EXCEPT !.op = "delete_setting", !.key = key,
                                  !.ret = key \in DOMAIN system_settings,
                                  !.rd = redis]
    /\ UNCHANGED <<ratelimit, redis, sheetVars, authVars, procs>>

CheckRateLimitCall(user_id, limit) ==
    LET r == CheckRateLimit(redis, ratelimit, user_id, limit)
        before == IF redis = "up" /\ user_id \in DOMAIN ratelimit
                  THEN last.allowed[user_id] ELSE 0
    IN /\ ratelimit' = r.counters
       /\ last' = [NoConfCall EXCEPT !.op = "check_rate_limit", !.ret = r.ret,
                                     !.rd = redis,
                                     !.user_id = user_id, !.limit = limit,
                                     !.allowed = [last.allowed EXCEPT ![user_id] =
                                         IF r.ret THEN before + 1 ELSE before]]
       /\ UNCHANGED <<system_settings, setting_cache, redis, sheetVars, authVars,
                      procs>>

\* Redis drops an entry whose time to live has run out: a "setting:" entry
\* after 600 s, a "ratelimit:" entry after the window
SettingExpires(key) ==
    /\ redis = "up"
    /\ key \in DOMAIN setting_cache
    /\ setting_cache' = [k \in DOMAIN setting_cache \ {key} |-> setting_cache[k]]
    /\ UNCHANGED <<system_settings, ratelimit, redis, last, sheetVars, authVars,
                   procs>>

WindowExpires(user_id) ==
    /\ redis = "up"
    /\ user_id \in DOMAIN ratelimit
    /\ ratelimit[user_id].ttl
    /\ ratelimit' = [u \in DOMAIN ratelimit \ {user_id} |-> ratelimit[u]]
    /\ UNCHANGED <<system_settings, setting_cache, redis, last, sheetVars,
                   authVars, procs>>

NextSettings ==
    \/ \E key \in SettingKeys, default \in Defaults : GetSettingCall(key, default)
    \/ \E key \in SettingKeys, value \in SettingValues, db_ok \in BOOLEAN :
          SetSettingCall(key, value, db_ok)
    \/ \E key \in SettingKeys : DeleteSettingCall(key)
    \/ \E key \in SettingKeys : SettingExpires(key)

SpecSettings == InitSettings /\ [][NextSettings]_vars

NextRate ==
    \/ \E user_id \in RateUsers, limit \in Limits :
          CheckRateLimitCall(user_id, limit)
    \/ \E user_id \in RateUsers : WindowExpires(user_id)

SpecRate == InitSettings /\ [][NextRate]_vars

C20_KeysCaseNormalized ==
    /\ (last.op = "get_setting" /\ last.prev # <<>>
           /\ last.prev[1].op = "set_setting" /\ last.prev[1].ret = TRUE
           /\ Lower(last.prev[1].key) = Lower(last.key))
          => last.ret = last.prev[1].value
    /\ \A a, b \in DOMAIN system_settings : Lower(a) = Lower(b) => a = b

\* C19: fixed window: of the calls of one identity since the call that found
\* no counter, at most `limit` are allowed, for every limit >= 0.
C19_AtMostLimitPerWindow ==
    (last.op = "check_rate_limit" /\ last.ret = TRUE) =>
        last.allowed[last.user_id] <= last.limit

\* ------------------------------------------------------------------------
\* The same calls while the cache backend comes and goes
\* ------------------------------------------------------------------------
\* RedisCache.initialize may fail at startup and leave _initialized False
InitCache ==
    /\ shifts = EmptyBag
    /\ tabs = SampleTabs
    /\ backups = SampleBackups
    /\ now = 0
    /\ last = NoConfCall
    /\ users = SeedUsers
    /\ api_keys = {}
    /\ cache = EmptyCache
    /\ blacklist = {}
    /\ system_settings = NoSettings
    /\ setting_cache = NoSettings
    /\ ratelimit = NoCounters
    /\ redis \in {"up", "uninitialised"}
    /\ procs = <<>>

\* the connection to Redis breaks, or comes back
RedisChanges ==
    /\ redis # "uninitialised"
    /\ redis' = (IF redis = "up" THEN "raising" ELSE "up")
    /\ UNCHANGED <<system_settings, setting_cache, ratelimit, last, sheetVars,
                   authVars, procs>>

\* get_user_by_key(api_key): is_key_blacklisted answers False and get_user
\* None, and set_user does nothing, unless the backend is up
GetUserByKeyCall(k) ==
    LET r == IF redis = "up" THEN GetUserByKey(users, cache, blacklist, k)
             ELSE [GetUserByKey(users, EmptyCache, {}, k) EXCEPT !.cache = cache]
    IN /\ cache' = r.cache
       /\ last' = [NoAuthCall EXCEPT !.op = "get_user_by_key", !.token = k,
                               !.ret = r.ret, !.trace = r.trace,
                               !.blacklisted = IsKeyBlacklisted(blacklist, k),
                               !.rd = redis]
       /\ UNCHANGED <<users, api_keys, blacklist, sheetVars, procs, confVars>>

\* Redis drops a "user:" entry after 300 s and a "blacklist:" entry after
\* 86400 s, by when every "user:" entry written before it is gone
UserEntryExpires(k) ==
    /\ redis = "up"
    /\ k \in DOMAIN cache
    /\ cache' = InvalidateUser(cache, k)
    /\ UNCHANGED <<users, api_keys, blacklist, last, sheetVars, procs, confVars>>

BlacklistExpires(k) ==
    /\ redis = "up"
    /\ k \in blacklist
    /\ k \notin DOMAIN cache
    /\ blacklist' = blacklist \ {k}
    /\ UNCHANGED <<users, api_keys, cache, last, sheetVars, procs, confVars>>

NextCache ==
    \/ RedisChanges
    \/ \E k \in {"key_anna"} : GetUserByKeyCall(k)
    \/ \E id \in {2} : ResetUserKeyCall(id)
    \/ \E id \in {2} : DeleteUserCall(id)
    \/ \E k \in {"key_anna"} : UserEntryExpires(k)
    \/ \E k \in {"key_anna"} : BlacklistExpires(k)
    \/ \E default \in Defaults : GetSettingCall("VISION_MODEL", default)
    \/ \E value \in SettingValues : SetSettingCall("VISION_MODEL", value, TRUE)
    \/ SettingExpires("VISION_MODEL")
    \/ \E limit \in Limits : CheckRateLimitCall(1, limit)
    \/ WindowExpires(1)

SpecCache == InitCache /\ [][NextCache]_vars

\* C18: while the cache backend raises or is uninitialised, get_setting
\* returns the value of the table row if there is one and the caller's
\* default otherwise, get_user_by_key returns the identity the users table
\* holds for the token, and check_rate_limit allows the call.
C18_DegradesToDurableStore ==
    /\ (last.op = "get_setting" /\ last.rd # "up") =>
           last.ret = (IF last.key \in DOMAIN system_settings
                       THEN system_settings[last.key] ELSE last.value)
    /\ (last.op = "get_user_by_key" /\ last.rd # "up") =>
           last.ret = ActiveUserByKey(users, last.token)
    /\ (last.op = "check_rate_limit" /\ last.rd # "up") => last.ret = TRUE

\* a get_setting answered from the table while Redis, raising, still holds
\* another value for the key
C18_Witness ==
    /\ last.op = "get_setting" /\ last.rd = "raising"
    /\ last.key \in DOMAIN setting_cache
    /\ last.key \in DOMAIN system_settings
    /\ setting_cache[last.key] # system_settings[last.key]
    /\ last.ret = system_settings[last.key]

\* the credentials of the seeded users that reset_user_key or delete_user
\* has revoked
Revoked ==
    {SeedUsers[i].api_key : i \in {j \in DOMAIN SeedUsers :
        ~(users[j].api_key = SeedUsers[j].api_key /\ users[j].is_active)}}

\* C11: once its revocation has returned, a credential resolves to no
\* identity through get_user_by_key: not after the blacklist entry has
\* expired, and not when Redis was unavailable during the revocation.
C11_RevokedNeverResolves ==
    (last.op = "get_user_by_key" /\ last.token \in Revoked) => last.ret = NoUser

\* ------------------------------------------------------------------------
\* The spreadsheet mirror: tabs created, read and updated
\* ------------------------------------------------------------------------
\* a spreadsheet that has only the legacy tab
LegacyTabs == (Sheet1 :> <<Header, RowCarlo1, RowAnna1>>)

InitMirror ==
    /\ shifts = EmptyBag
    /\ tabs \in {SampleTabs, LegacyTabs}
    /\ backups \in {NoFiles, SampleBackups,
                    (BackupName(1) :> JsonDump(<<RowCarloNull>>)) @@ SampleBackups}
    /\ now = 0
    /\ last = [op |-> "none"]
    /\ RegistryAtStartup
    /\ procs = <<>>

\* create_new_sheet_tab(title, values)
CreateTab ==
    \E t \in {1, 9}, values \in RecordLists \ {<<>>}, svc \in Services :
        /\ Cardinality(DOMAIN tabs \cup {TabTitle(t)}) <= MaxTabs
        /\ tabs' = CreateNewSheetTab(tabs, TabTitle(t), values, svc)
        /\ last' = [op |-> "create_new_sheet_tab", out |-> svc]
        /\ UNCHANGED <<shifts, backups, now>>
        /\ UNCHANGED <<authVars, procs, confVars>>

\* update_shift(target_date, target_user, new_values), new_values being the
\* dict _sync_shift_to_sheets passes; one call per (date, owner) of the
\* requests
UpdateShiftCall ==
    \E r \in {rq \in SaveRequests : rq.vals # P2 \/ rq.user_id = 2},
       svc \in Services :
        LET target_date == Str(Strftime(r.shift_date))
            target_user == Users[r.user_id].name
            new_values == [slot_1 |-> OrEmpty(r.vals.slot_1),
                           slot_2 |-> OrEmpty(r.vals.slot_2),
                           notes |-> OrEmpty(r.vals.notes)]
        IN /\ backups' = UpdateLocal(backups, target_date, target_user, new_values)
           /\ tabs' = UpdateTab(tabs, target_date, target_user, new_values, svc)
           /\ last' = [op |-> "update_shift", out |-> svc,
                       target_date |-> target_date, target_user |-> target_user,
                       new_values |-> new_values]
           /\ UNCHANGED <<shifts, now>>
           /\ UNCHANGED <<authVars, procs, confVars>>

NextMirror == CreateTab \/ ReadLatest \/ UpdateShiftCall

SpecMirror == InitMirror /\ [][NextMirror]_vars

\* the tab titles that hold 'shifts_' and the snapshot files, none greater
Greatest(S) == {f \in S : \A g \in S : ~LexLess(f, g)}

\* C22: get_latest_sheet_data returns the rows of the tab with the greatest
\* `shifts_` title when the spreadsheet answers, and the content of the
\* snapshot file with the greatest name (an empty list when there is none)
\* when the transport fails.
C22_LatestTabElseLatestSnapshot ==
    /\ (last.op = "get_latest_sheet_data" /\ last.out = "up"
           /\ VersionedTitles(tabs) # {}) =>
          \E t \in Greatest(VersionedTitles(tabs)) : last.ret = tabs[t]
    /\ (last.op = "get_latest_sheet_data" /\ last.out \in {"absent", "down"}) =>
          IF DOMAIN backups = {} THEN last.ret = <<>>
          ELSE \E f \in Greatest(DOMAIN backups) : last.ret = JsonLoad(backups[f])

\* the rows of the newer of two tabs that differ were returned
C22_Witness ==
    /\ last.op = "get_latest_sheet_data" /\ last.out = "up"
    /\ \E t, u \in VersionedTitles(tabs) :
          /\ LexLess(u, t) /\ tabs[u] # tabs[t]
          /\ last.ret = tabs[t] /\ Len(last.ret) > 1

\* a row that carries the date and the owner name
Identified(row, target_date, target_user) ==
    /\ row.kind = "list" /\ Len(row.cells) >= 3
    /\ row.cells[1] = target_date
    /\ Lower(row.cells[3]) = Lower(target_user)

\* the rows changed are none but the first one identified by the date and the
\* owner, which stays identified by them
RewrittenInPlace(before, after, target_date, target_user) ==
    /\ Len(after) = Len(before)
    /\ \A i \in 1..Len(before) :
          after[i] # before[i] =>
              /\ Identified(before[i], target_date, target_user)
              /\ \A j \in 1..(i - 1) :
                    ~Identified(before[j], target_date, target_user)
              /\ Identified(after[i], target_date, target_user)

\* C28: update_shift rewrites in place the first row of the latest tab (of
\* Sheet1 when there is no `shifts_` tab) that carries the date and the
\* owner; the row stays identified by them and every other row and tab is
\* unchanged; with the service unreachable no tab changes, and the latest
\* local snapshot is rewritten the same way.
C28_UpdateRewritesFirstMatchInPlace ==
    [][last'.op = "update_shift" =>
        LET title == IF VersionedTitles(tabs) = {} THEN Sheet1
                     ELSE LatestName(VersionedTitles(tabs))
        IN /\ DOMAIN tabs' = DOMAIN tabs
           /\ \A t \in DOMAIN tabs \ {title} : tabs'[t] = tabs[t]
           /\ last'.out \in {"absent", "down"} => tabs' = tabs
           /\ title \in DOMAIN tabs =>
                 RewrittenInPlace(tabs[title], tabs'[title],
                                  last'.target_date, last'.target_user)
           /\ DOMAIN backups' = DOMAIN backups
           /\ \A f \in DOMAIN backups :
                 IF f = LatestName(DOMAIN backups)
                 THEN RewrittenInPlace(JsonLoad(backups[f]), JsonLoad(backups'[f]),
                                       last'.target_date, last'.target_user)
                 ELSE backups'[f] = backups[f]]_vars


\* C39: update_shift on the local snapshot is idempotent and repeatable:
\* applying it a second time leaves the content it left the first time, and
\* an update_shift for a (date, owner) present in the snapshot finds and
\* rewrites its row, whatever updates were made before it.
C39_UpdateLocalRepeatable ==
    [][(last'.op = "update_shift" /\ DOMAIN backups # {}) =>
          LET f == LatestName(DOMAIN backups)
              before == JsonLoad(backups[f])
              after == JsonLoad(backups'[f])
              hits == {i \in 1..Len(before) :
                          Identified(before[i], last'.target_date, last'.target_user)}
          IN /\ UpdateLocal(backups', last'.target_date, last'.target_user,
                            last'.new_values) = backups'
             /\ hits # {} =>
                   \E i \in hits : after[i] = DictRow(last'.new_values)]_vars

\* ------------------------------------------------------------------------
\* The image-processing task and its status endpoint
\* ------------------------------------------------------------------------
\* what the extraction met: "ok" (Gemini answered with JSON), "malformed"
\* (json.loads raised), "model_error" (analyze_image raised), "crash" (an
\* exception left process_image_logic)
Extractions == {"ok", "malformed", "model_error", "crash"}

\* process_image_logic: what the Celery task returns, and the state Celery
\* records for it
ProcessImageLogic(outcome) ==
    CASE outcome = "ok" -> [status |-> "SUCCESS", result |-> "parsed_data"]
      [] outcome = "malformed" ->
            [status |-> "SUCCESS", result |-> "error: JSON malformato"]
      [] outcome = "model_error" ->
            [status |-> "SUCCESS", result |-> "error: str(e)"]
      [] OTHER -> [status |-> "FAILURE", result |-> "exception"]

\* AsyncResult(task_id): PENDING for an id the backend has no result for
AsyncResult(tasks, task_id) ==
    IF task_id \in DOMAIN tasks THEN tasks[task_id]
    ELSE [status |-> "PENDING", result |-> NoneVal, extraction |-> NoneVal]

\* get_task_status(task_id): the response
GetTaskStatus(tasks, task_id) ==
    LET task_result == AsyncResult(tasks, task_id)
    IN [task_id |-> task_id, status |-> task_result.status,
        result |-> IF task_result.status = "SUCCESS" THEN task_result.result
                   ELSE NoneVal,
        error |-> IF task_result.status = "FAILURE" THEN task_result.result
                  ELSE NoneVal]

InitTask ==
    /\ shifts = EmptyBag
    /\ tabs = SampleTabs
    /\ backups = SampleBackups
    /\ now = 0
    /\ last = [op |-> "none"]
    /\ RegistryAtStartup
    /\ procs = <<>>

\* upload_image: process_shift_image_task.delay(...)
UploadCall ==
    /\ Len(procs) < MaxTasks
    /\ procs' = Append(procs, [status |-> "PENDING", result |-> NoneVal,
                               extraction |-> NoneVal])
    /\ last' = [op |-> "upload", task_id |-> Len(procs) + 1,
                status |-> "processing"]
    /\ UNCHANGED <<sheetVars, authVars, confVars>>

\* the worker runs process_shift_image_task
WorkerRuns(task_id, outcome) ==
    /\ task_id \in DOMAIN procs
    /\ procs[task_id].status = "PENDING"
    /\ procs' = [procs EXCEPT ![task_id] =
                    [status |-> ProcessImageLogic(outcome).status,
                     result |-> ProcessImageLogic(outcome).result,
                     extraction |-> outcome]]
    /\ last' = [op |-> "process_shift_image", task_id |-> task_id]
    /\ UNCHANGED <<sheetVars, authVars, confVars>>

\* GET /status/{task_id}
GetTaskStatusCall(task_id) ==
    /\ last' = [op |-> "get_task_status", task_id |-> task_id,
                ret |-> GetTaskStatus(procs, task_id),
                again |-> (last.op = "get_task_status" /\ last.task_id = task_id),
                before |-> IF last.op = "get_task_status" /\ last.task_id = task_id
                           THEN last.ret ELSE GetTaskStatus(procs, task_id)]
    /\ UNCHANGED <<procs, sheetVars, authVars, confVars>>

NextTask ==
    \/ UploadCall
    \/ \E task_id \in 1..MaxTasks, outcome \in Extractions :
          WorkerRuns(task_id, outcome)
    \/ \E task_id \in 1..MaxTasks : GetTaskStatusCall(task_id)

SpecTask == InitTask /\ [][NextTask]_vars

\* the status of the contract a Celery state stands for
StatusClass(st) ==
    CASE st \in {"PENDING", "STARTED", "RETRY"} -> "processing"
      [] st = "SUCCESS" -> "success"
      [] st = "FAILURE" -> "failure"
      [] OTHER -> "other"

\* C23: a poll reports processing, success or failure; a task whose
\* extraction succeeded is reported as success with its payload, one whose
\* extraction failed on a model error as failure with an error string; a poll
\* changes no task, and a poll repeated at once returns the same answer.
C23_PollReportsOutcome ==
    /\ last.op = "get_task_status" =>
          /\ StatusClass(last.ret.status) \in {"processing", "success", "failure"}
          /\ last.again => last.ret = last.before
          /\ last.task_id \in DOMAIN procs =>
                /\ procs[last.task_id].extraction = "ok" =>
                      /\ StatusClass(last.ret.status) = "success"
                      /\ last.ret.result = "parsed_data"
                /\ procs[last.task_id].extraction = "model_error" =>
                      /\ StatusClass(last.ret.status) = "failure"
                      /\ last.ret.error # NoneVal

\* ------------------------------------------------------------------------
\* The store against its mirror, under Spec
\* ------------------------------------------------------------------------
\* the slot and note cells of a row of the mirror
MirrorFields(row) ==
    [slot_1 |-> OrEmpty(CellOrNone(row, 4)), slot_2 |-> OrEmpty(CellOrNone(row, 5)),
     notes |-> OrEmpty(CellOrNone(row, 6))]

\* the latest tab has a row for the record's date and owner with the slots
\* and notes of the record
Mirrored(r) ==
    LET data == GetLatestSheetData(tabs, backups, "up")
    IN \E i \in 1..Len(data) :
          /\ Identified(data[i], Str(Strftime(r.shift_date)), Users[r.user_id].name)
          /\ MirrorFields(data[i]) = NewValues(r)

\* C30: in every reachable state a record whose synced_to_sheets is true has
\* a row for its date and owner in the latest tab of the mirror, with slot
\* and note fields equal to the record's, also when the push found no row to
\* rewrite.
C30_SyncedRecordIsMirrored ==
    \A r \in BagToSet(shifts) : r.synced_to_sheets => Mirrored(r)


\* the latest tab and the latest snapshot hold one published record list:
\* create_new_sheet_tab writes the header and the rows, save_versioned_local
\* the rows
SamePublished(tb, bk) ==
    GetLatestSheetData(tb, bk, "up") = <<Header>> \o GetLatestLocalBackup(bk)

\* C38: the pull imports the same records whichever source served the
\* snapshot: for one published record list, sync_from_sheets leaves the
\* owner the records it creates from the spreadsheet tab, and the records it
\* creates from the local snapshot file.
C38_PullSameFromTabAndSnapshot ==
    (last.op = "list_shifts" /\ last.pulled /\ SamePublished(tabs, backups)) =>
        \A svc \in {"up", "down"} :
            OwnerRows(shifts, last.user_id) =
                OwnerRows(SyncFromSheets(EmptyBag, tabs, backups, last.user_id, svc).tbl,
                          last.user_id)


\* C37: a deleted record stays deleted: after delete_shift(owner, date) has
\* returned true, a list_shifts (and the sync_from_sheets it may run) makes
\* no record for (owner, date) reappear, also when the deleted record was
\* the owner's last one.
C37_DeletedStaysDeleted ==
    [][(last.op = "delete_shift" /\ last.ret = 1 /\ last'.op = "list_shifts") =>
          Matching(shifts', last.user_id, last.shift_date) = {}]_vars

\* ------------------------------------------------------------------------
\* list_shifts beside the calls that write the store
\* ------------------------------------------------------------------------
\* the list_shifts request: before its query, or between its query (which
\* found no record) and its pull
IdleList == [pc |-> "idle", user_id |-> 0]

InitPull ==
    /\ shifts = EmptyBag
    /\ tabs = SampleTabs
    /\ backups = SampleBackups
    /\ now = 0
    /\ last = NoCall
    /\ RegistryAtStartup
    /\ procs = IdleList

\* list_shifts, lines 150-153: get_user_shifts in its own session
ListShiftsQuery(u) ==
    LET all_shifts == GetUserShifts(shifts, u, NoDate, NoDate)
    IN /\ procs.pc = "idle"
       /\ IF Len(all_shifts) = 0
          THEN /\ procs' = [pc |-> "pulling", user_id |-> u]
               /\ UNCHANGED last
          ELSE /\ procs' = IdleList
               /\ last' = [NoCall EXCEPT !.op = "list_shifts", !.user_id = u]
       /\ UNCHANGED <<sheetVars, authVars, confVars>>

\* list_shifts, line 155: sync_from_sheets, one session per row saved
ListShiftsSync(svc) ==
    LET u == procs.user_id
        res == SyncFromSheets(shifts, tabs, backups, u, svc)
    IN /\ procs.pc = "pulling"
       /\ shifts' = res.tbl
       /\ procs' = IdleList
       /\ last' = [NoCall EXCEPT !.op = "list_shifts", !.user_id = u, !.out = svc,
                      !.pulled = TRUE, !.ret = res.count]
       /\ UNCHANGED <<tabs, backups, now, authVars, confVars>>

\* the requests of other clients are save_shift and delete_shift calls
NextPull ==
    \/ \E u \in Owners : ListShiftsQuery(u)
    \/ \E svc \in {"up", "down"} : ListShiftsSync(svc)
    \/ \E r \in SaveRequests :
           SaveShiftCall(r.user_id, r.shift_date, r.vals, r.source, FALSE, "up")
    \/ \E u \in Owners, d \in Dates : DeleteShiftCall(u, d)

SpecPull == InitPull /\ [][NextPull]_vars

\* C27: sync_from_sheets creates or overwrites no record of an owner who has
\* a local record when it runs: the pull leaves the store as it is unless the
\* owner has none, so that no local edit is replaced by mirror data.
C27_PullOnlyForOwnerWithoutRecords ==
    [][(procs.pc = "pulling" /\ procs'.pc = "idle"
           /\ OwnerRows(shifts, procs.user_id) # {}) => shifts' = shifts]_vars

\* ------------------------------------------------------------------------
\* The application process and PostgreSQL: startup, and the writes of a
\* request when the database fails
\* ------------------------------------------------------------------------
\* where the session of a write meets the failure: nowhere, when get_session
\* connects, at the SELECT, or at the commit
Faults == {"none", "connect", "query", "commit"}

\* DatabaseManager.initialize, lines 25-69, with DATABASE_URL set: it raises
\* when the test connection fails
Initialize(db) == IF db = "reachable" THEN "ok" ELSE "raise"

\* save_shift, had it pushed the row to the mirror before its commit
SaveShiftSessionPushesFirst(tbl, tb, bk, existing, id, u, d, p, src, sync, out, fault) ==
    LET res == SaveShiftResult(tbl, tb, bk, existing, id, u, d, p, src, sync, out)
    IN IF fault = "none"
       THEN [tbl |-> res.tbl, backups |-> res.backups, tabs |-> res.tabs,
             row |-> res.row, raised |-> FALSE]
       ELSE IF fault = "commit"
       THEN [tbl |-> tbl, backups |-> res.backups, tabs |-> res.tabs,
             row |-> NoRow, raised |-> TRUE]
       ELSE [tbl |-> tbl, backups |-> bk, tabs |-> tb, row |-> NoRow,
             raised |-> TRUE]

\* save_shift inside get_session (connection.py 95-119): an exception of
\* lines 57-83 leaves the with block before the push, get_session rolls the
\* session back and raises it again
SaveShiftSession(tbl, tb, bk, existing, id, u, d, p, src, sync, out, fault) ==
    LET res == SaveShiftResult(tbl, tb, bk, existing, id, u, d, p, src, sync, out)
    IN IF fault = "none"
       THEN [tbl |-> res.tbl, backups |-> res.backups, tabs |-> res.tabs,
             row |-> res.row, raised |-> FALSE]
       ELSE [tbl |-> tbl, backups |-> bk, tabs |-> tb, row |-> NoRow,
             raised |-> TRUE]

\* the process before its startup event, PostgreSQL reachable or not
Created(db) == [phase |-> "created", db |-> db, startup_db |-> db]

NoLifeCall ==
    [op |-> "none", user_id |-> 0, shift_date |-> D1, key |-> "", sync |-> FALSE,
     out |-> "", fault |-> "none", ret |-> "", pushable |-> FALSE,
     cached |-> FALSE]

InitLife ==
    /\ shifts = EmptyBag
    /\ tabs = SampleTabs
    /\ backups = SampleBackups
    /\ now = 0
    /\ last = NoLifeCall
    /\ RegistryAtStartup
    /\ procs \in {Created("reachable"), Created("unreachable")}

\* startup_event, main.py 36-57: init_db and init_cache, each in a try whose
\* except logs and goes on
StartupEvent ==
    /\ procs.phase = "created"
    /\ procs' = [procs EXCEPT !.phase = "started", !.startup_db = procs.db]
    /\ last' = [NoLifeCall EXCEPT
                   !.op = "startup_event",
                   !.ret = IF Initialize(procs.db) = "ok"
                           THEN "Database initialized"
                           ELSE "Application will continue without database features"]
    /\ UNCHANGED <<sheetVars, authVars, confVars>>

\* PostgreSQL goes away, or comes back
DbChanges ==
    /\ procs' = [procs EXCEPT !.db = IF @ = "reachable" THEN "unreachable"
                                     ELSE "reachable"]
    /\ UNCHANGED <<sheetVars, last, authVars, confVars>>

\* the failure a session meets: its connection when PostgreSQL is
\* unreachable, else the one the request is run with
Met(fault) ==
    IF Initialize(procs.db) = "raise" THEN "connect"
    ELSE IF fault = "connect" THEN "none" ELSE fault

\* a request that ends in save_shift
SaveShiftRequest(r, sync, out, fault) ==
    /\ procs.phase = "started"
    /\ sync \/ out = "up"
    /\ LET existing == TheRow(shifts, r.user_id, r.shift_date)
           res == SaveShiftSession(shifts, tabs, backups, existing, 0, r.user_id,
                                   r.shift_date, r.vals, r.source, sync, out,
                                   Met(fault))
       IN /\ shifts' = res.tbl
          /\ tabs' = res.tabs
          /\ backups' = res.backups
          /\ last' = [NoLifeCall EXCEPT
                         !.op = "save_shift", !.user_id = r.user_id,
                         !.shift_date = r.shift_date, !.sync = sync, !.out = out,
                         !.fault = Met(fault),
                         !.ret = IF res.raised THEN "raise" ELSE "shift",
                         !.pushable =
                             (UpdateTab(tabs, Str(Strftime(r.shift_date)),
                                        Users[r.user_id].name, NewValues(r.vals), out)
                                 # tabs)]
    /\ UNCHANGED <<now, authVars, confVars, procs>>

\* a request that ends in settings_storage.set_setting
SetSettingRequest(key, value, fault) ==
    LET r == SetSetting(redis, system_settings, setting_cache, key, value,
                        Met(fault) = "none")
    IN /\ procs.phase = "started"
       /\ system_settings' = r.table
       /\ setting_cache' = r.cache
       /\ last' = [NoLifeCall EXCEPT
                      !.op = "set_setting", !.key = key, !.fault = Met(fault),
                      !.ret = IF r.ret THEN "True" ELSE "False",
                      !.cached = (Lower(key) \in DOMAIN setting_cache)]
       /\ UNCHANGED <<ratelimit, redis, sheetVars, authVars, procs>>

\* a request that ends in settings_storage.get_setting
GetSettingRequest(key) ==
    LET r == GetSetting(redis, system_settings, setting_cache, key, NoneVal)
    IN /\ procs.phase = "started"
       /\ Met("none") = "none"
       /\ setting_cache' = r.cache
       /\ last' = [NoLifeCall EXCEPT !.op = "get_setting", !.key = key]
       /\ UNCHANGED <<system_settings, ratelimit, redis, sheetVars, authVars, procs>>

NextLife ==
    \/ StartupEvent
    \/ DbChanges
    \/ \E r \in {rq \in SaveRequests : rq.user_id = 1 /\ rq.shift_date = D1},
          sync \in BOOLEAN, out \in {"up", "down"}, fault \in Faults :
           SaveShiftRequest(r, sync, out, fault)
    \/ \E key \in SettingKeys, fault \in Faults :
           SetSettingRequest(key, "gemini-2.5-pro", fault)
    \/ \E key \in SettingKeys : GetSettingRequest(key)

SpecLife == InitLife /\ [][NextLife]_vars

C25_NoServiceWithoutDatabase ==
    procs.startup_db = "unreachable" =>
        /\ procs.phase # "started"
        /\ last.op \notin {"save_shift", "set_setting", "get_setting"}

\* ------------------------------------------------------------------------
\* The sheets client ShiftStorage shares among its calls, one line at a time
\* ------------------------------------------------------------------------
\* user.spreadsheet_id of two owners with a spreadsheet each
OwnSheet == [u \in Owners |-> IF u = 1 THEN "sheetA" ELSE "sheetB"]

\* self.sheets_client is None
NoClient == "None"

\* a save_shift call outside _sync_shift_to_sheets
IdleSync == [pc |-> "idle", user_id |-> 0, sheets_client |-> NoClient]

\* ShiftStorage.__init__: self.sheets_client = None
InitClient ==
    /\ shifts = EmptyBag
    /\ tabs = SampleTabs
    /\ backups = SampleBackups
    /\ now = 0
    /\ last = [op |-> "none", user_id |-> 0, spreadsheet_id |-> NoClient]
    /\ RegistryAtStartup
    /\ procs = [shared |-> NoClient, calls |-> [p \in Savers |-> IdleSync]]

\* _sync_shift_to_sheets, line 96: the user of the shift
SyncBegins(p, u) ==
    /\ procs.calls[p].pc = "idle"
    /\ procs' = [procs EXCEPT !.calls[p] =
                    [pc |-> "test", user_id |-> u, sheets_client |-> NoClient]]
    /\ UNCHANGED <<sheetVars, last, authVars, confVars>>

\* _get_sheets_client, line 25
GetClientTest(p) ==
    LET c == procs.calls[p]
    IN /\ c.pc = "test"
       /\ procs' = [procs EXCEPT !.calls[p].pc =
                       IF procs.shared = NoClient
                          \/ procs.shared # OwnSheet[c.user_id]
                       THEN "create" ELSE "return"]
       /\ UNCHANGED <<sheetVars, last, authVars, confVars>>

\* _get_sheets_client, lines 26-27
GetClientCreate(p) ==
    LET c == procs.calls[p]
    IN /\ c.pc = "create"
       /\ procs' = [procs EXCEPT !.shared = OwnSheet[c.user_id],
                                 !.calls[p].pc = "return"]
       /\ UNCHANGED <<sheetVars, last, authVars, confVars>>

\* _get_sheets_client, line 28: return self.sheets_client
GetClientReturn(p) ==
    /\ procs.calls[p].pc = "return"
    /\ procs' = [procs EXCEPT !.calls[p].pc = "push",
                              !.calls[p].sheets_client = procs.shared]
    /\ UNCHANGED <<sheetVars, last, authVars, confVars>>

\* _sync_shift_to_sheets, lines 105-113: update_shift on the client returned
\* (this specification follows the spreadsheet addressed, not its rows)
SyncPushes(p) ==
    LET c == procs.calls[p]
    IN /\ c.pc = "push"
       /\ procs' = [procs EXCEPT !.calls[p] = IdleSync]
       /\ last' = [op |-> "update_shift", user_id |-> c.user_id,
                   spreadsheet_id |-> c.sheets_client]
       /\ UNCHANGED <<sheetVars, authVars, confVars>>

NextClient ==
    \/ \E p \in Savers, u \in Owners : SyncBegins(p, u)
    \/ \E p \in Savers : GetClientTest(p)
    \/ \E p \in Savers : GetClientCreate(p)
    \/ \E p \in Savers : GetClientReturn(p)
    \/ \E p \in Savers : SyncPushes(p)

SpecClient == InitClient /\ [][NextClient]_vars

\* C36: with concurrent save_shift calls for two owners that have different
\* spreadsheets, each push is sent to the spreadsheet of the record's own
\* owner.
C36_PushGoesToOwnSpreadsheet ==
    last.op = "update_shift" => last.spreadsheet_id = OwnSheet[last.user_id]

\* ------------------------------------------------------------------------
\* check_rate_limit calls in parallel, one Redis command at a time
\* ------------------------------------------------------------------------
\* the callers, and the limit they are checked against
Callers == 1..NumAuth
RateLimit == MaxLimit

IdleCaller == [pc |-> "idle", user_id |-> 0]

\* no "ratelimit:" key; `admitted` counts, for each identity, the calls
\* allowed since its key was last absent
InitLimit ==
    /\ shifts = EmptyBag
    /\ tabs = SampleTabs
    /\ backups = SampleBackups
    /\ now = 0
    /\ last = [op |-> "none", user_id |-> 0, ret |-> FALSE]
    /\ RegistryAtStartup
    /\ procs = [admitted |-> [u \in RateUsers |-> 0],
                calls |-> [p \in Callers |-> IdleCaller]]

\* lines 199-200 and 207-209: GET, and the answer False when the count read
\* has reached the limit
RateGet(p, user_id) ==
    LET current == IF user_id \in DOMAIN ratelimit
                   THEN ratelimit[user_id].count ELSE NoneVal
        denied == current # NoneVal /\ NumVal(current) >= RateLimit
    IN /\ procs.calls[p].pc = "idle"
       /\ procs' = [procs EXCEPT !.calls[p] =
                       IF denied THEN IdleCaller
                       ELSE [pc |-> IF current = NoneVal THEN "setex" ELSE "incr",
                             user_id |-> user_id]]
       /\ last' = IF denied
                  THEN [op |-> "check_rate_limit", user_id |-> user_id, ret |-> FALSE]
                  ELSE last
       /\ UNCHANGED <<ratelimit, system_settings, setting_cache, redis, sheetVars,
                      authVars>>

\* the call returns True
Admitted(p, user_id) ==
    /\ procs' = [procs EXCEPT !.calls[p] = IdleCaller,
                              !.admitted[user_id] =
                                  IF user_id \in DOMAIN ratelimit THEN @ + 1 ELSE 1]
    /\ last' = [op |-> "check_rate_limit", user_id |-> user_id, ret |-> TRUE]

\* lines 202-205: SETEX key window "1", return True
RateSetex(p) ==
    LET user_id == procs.calls[p].user_id
    IN /\ procs.calls[p].pc = "setex"
       /\ ratelimit' = [u \in DOMAIN ratelimit \cup {user_id} |->
                           IF u = user_id THEN [count |-> IntToStr(1), ttl |-> TRUE]
                           ELSE ratelimit[u]]
       /\ Admitted(p, user_id)
       /\ UNCHANGED <<system_settings, setting_cache, redis, sheetVars, authVars>>

\* lines 211-213: INCR key, return True; INCR of a key that does not exist
\* sets it to 1, with no expiry
RateIncr(p) ==
    LET user_id == procs.calls[p].user_id
    IN /\ procs.calls[p].pc = "incr"
       /\ ratelimit' = [u \in DOMAIN ratelimit \cup {user_id} |->
                           IF u # user_id THEN ratelimit[u]
                           ELSE IF user_id \in DOMAIN ratelimit
                           THEN [ratelimit[u] EXCEPT
                                    !.count = IntToStr(NumVal(ratelimit[u].count) + 1)]
                           ELSE [count |-> IntToStr(1), ttl |-> FALSE]]
       /\ Admitted(p, user_id)
       /\ UNCHANGED <<system_settings, setting_cache, redis, sheetVars, authVars>>

\* the window of a key runs out: Redis drops a key that has an expiry
RateKeyExpires(user_id) ==
    /\ user_id \in DOMAIN ratelimit
    /\ ratelimit[user_id].ttl
    /\ ratelimit' = [u \in DOMAIN ratelimit \ {user_id} |-> ratelimit[u]]
    /\ procs' = [procs EXCEPT !.admitted[user_id] = 0]
    /\ UNCHANGED <<system_settings, setting_cache, redis, last, sheetVars,
                   authVars>>

NextLimit ==
    \/ \E p \in Callers, user_id \in RateUsers : RateGet(p, user_id)
    \/ \E p \in Callers : RateSetex(p)
    \/ \E p \in Callers : RateIncr(p)
    \/ \E user_id \in RateUsers : RateKeyExpires(user_id)

SpecLimit == InitLimit /\ [][NextLimit]_vars

\* C31: under any interleaving of concurrent check_rate_limit calls for one
\* identity, the calls that return True within one window are at most
\* `limit`.
C31_NoOverAdmission ==
    (last.op = "check_rate_limit" /\ last.ret) =>
        procs.admitted[last.user_id] <= RateLimit

\* C32: whenever the key ratelimit:<id> exists it carries an expiry, under
\* every interleaving of the calls with the expiry of the window, so that a
\* denied identity is allowed again once the window has run out.
C32_CounterAlwaysExpires ==
    \A u \in DOMAIN ratelimit : ratelimit[u].ttl

\* ------------------------------------------------------------------------
\* get_setting calls racing a set_setting, one store access at a time
\* ------------------------------------------------------------------------
Readers == 1..NumAuth

IdleReader == [pc |-> "idle", key |-> NoneVal, value |-> NoneVal]

IdleWriter == [pc |-> "idle", key |-> NoneVal]

InitStale ==
    /\ shifts = EmptyBag
    /\ tabs = SampleTabs
    /\ backups = SampleBackups
    /\ now = 0
    /\ last = [op |-> "none", key |-> NoneVal, ret |-> NoneVal]
    /\ RegistryAtStartup
    /\ procs = [readers |-> [p \in Readers |-> IdleReader], writer |-> IdleWriter]

\* get_setting, lines 31-33: the cache
GetSettingCache(p, key) ==
    /\ procs.readers[p].pc = "idle"
    /\ IF CachedSetting(redis, setting_cache, key) # NoneVal
       THEN /\ last' = [op |-> "get_setting", key |-> key,
                        ret |-> CachedSetting(redis, setting_cache, key)]
            /\ UNCHANGED procs
       ELSE /\ procs' = [procs EXCEPT !.readers[p] =
                            [IdleReader EXCEPT !.pc = "query", !.key = key]]
            /\ UNCHANGED last
    /\ UNCHANGED <<confVars, sheetVars, authVars>>

\* lines 36-37 and 44: the row is read; the default (None) when there is none
GetSettingQuery(p) ==
    LET key == procs.readers[p].key
    IN /\ procs.readers[p].pc = "query"
       /\ IF key \in DOMAIN system_settings
          THEN /\ procs' = [procs EXCEPT !.readers[p].pc = "set_setting",
                                !.readers[p].value = system_settings[key]]
               /\ UNCHANGED last
          ELSE /\ procs' = [procs EXCEPT !.readers[p] = IdleReader]
               /\ last' = [op |-> "get_setting", key |-> key, ret |-> NoneVal]
       /\ UNCHANGED <<confVars, sheetVars, authVars>>

\* lines 39-42: the value read is cached and returned
GetSettingPopulate(p) ==
    LET key == procs.readers[p].key
        value == procs.readers[p].value
    IN /\ procs.readers[p].pc = "set_setting"
       /\ setting_cache' = CacheSetting(redis, setting_cache, key, value)
       /\ procs' = [procs EXCEPT !.readers[p] = IdleReader]
       /\ last' = [op |-> "get_setting", key |-> key, ret |-> value]
       /\ UNCHANGED <<system_settings, ratelimit, redis, sheetVars, authVars>>

\* set_setting, lines 65-85: the row is written and committed
SetSettingCommit(key, value) ==
    /\ procs.writer.pc = "idle"
    /\ system_settings' = SetSetting(redis, system_settings, setting_cache,
                                     key, value, TRUE).table
    /\ procs' = [procs EXCEPT !.writer = [pc |-> "invalidate", key |-> key]]
    /\ UNCHANGED <<setting_cache, ratelimit, redis, last, sheetVars, authVars>>

\* lines 87-91: the entry is invalidated and the call returns True
SetSettingInvalidate ==
    /\ procs.writer.pc = "invalidate"
    /\ setting_cache' = InvalidateSetting(redis, setting_cache, procs.writer.key)
    /\ procs' = [procs EXCEPT !.writer = IdleWriter]
    /\ last' = [op |-> "set_setting", key |-> procs.writer.key, ret |-> TRUE]
    /\ UNCHANGED <<system_settings, ratelimit, redis, sheetVars, authVars>>

NextStale ==
    \/ \E p \in Readers, key \in SettingKeys : GetSettingCache(p, key)
    \/ \E p \in Readers : GetSettingQuery(p)
    \/ \E p \in Readers : GetSettingPopulate(p)
    \/ \E key \in SettingKeys, value \in SettingValues : SetSettingCommit(key, value)
    \/ SetSettingInvalidate

SpecStale == InitStale /\ [][NextStale]_vars

\* C33: with a get_setting(k) running concurrently with set_setting(k, v),
\* once both have completed the cache never holds for k a value older than
\* the one in the durable store: a reader that read the old value from the
\* store cannot populate the cache after the writer's invalidation.
C33_CacheNotOlderThanStore ==
    (procs.writer.pc = "idle" /\ \A p \in Readers : procs.readers[p].pc = "idle") =>
        \A k \in DOMAIN setting_cache :
            k \in DOMAIN system_settings /\ setting_cache[k] = system_settings[k]

\* ------------------------------------------------------------------------
\* get_user_by_key calls racing update_user(id, {is_active: false})
\* ------------------------------------------------------------------------
\* update_user, lines 138-151, for user_data = {is_active: False}
DeactivateCommit(us, id) == [us EXCEPT ![id].is_active = FALSE]

\* lines 130-135: the user is loaded (False when there is none)
UpdateRead(id) ==
    /\ procs[Revoker].pc = "idle"
    /\ id \in DOMAIN users
    /\ procs' = [procs EXCEPT ![Revoker].pc = "update_commit",
                              ![Revoker].user_id = id,
                              ![Revoker].steps = <<>>,
                              ![Revoker].old_key = users[id].api_key]
    /\ UNCHANGED <<authVars, sheetVars, last, confVars>>

\* lines 138-151
UpdateCommitStep ==
    /\ procs[Revoker].pc = "update_commit"
    /\ users' = DeactivateCommit(users, procs[Revoker].user_id)
    /\ procs' = [procs EXCEPT ![Revoker].pc = "update_invalidate",
                              ![Revoker].steps = Append(@, "commit")]
    /\ UNCHANGED <<api_keys, cache, blacklist, sheetVars, last, confVars>>

\* lines 153-157: the entry of the user's key is invalidated and the call
\* returns True
UpdateInvalidateStep ==
    /\ procs[Revoker].pc = "update_invalidate"
    /\ cache' = InvalidateUser(cache, procs[Revoker].old_key)
    /\ procs' = [procs EXCEPT ![Revoker].pc = "idle",
                    ![Revoker].steps = Append(@, "invalidate"),
                    ![Revoker].revoked = @ \cup {procs[Revoker].old_key}]
    /\ UNCHANGED <<users, api_keys, blacklist, sheetVars, last, confVars>>

NextDeactivate ==
    \/ \E p \in AuthProcs, k \in {"key_carlo", "key_anna"} : AuthCheckBlacklist(p, k)
    \/ \E p \in AuthProcs : AuthReadCache(p)
    \/ \E p \in AuthProcs : AuthReadDb(p)
    \/ \E p \in AuthProcs : AuthSetCache(p)
    \/ \E id \in 1..MaxUsers : UpdateRead(id)
    \/ UpdateCommitStep
    \/ UpdateInvalidateStep

SpecDeactivate == InitRevoke /\ [][NextDeactivate]_vars

\* C34: after update_user(id, {is_active: false}) has returned success,
\* get_user_by_key for that user's credential returns no identity, also when
\* an authenticate call for the same credential ran concurrently with the
\* update (read the store before the commit and wrote the cache after the
\* invalidation).
C34_DeactivatedKeyReturnsNoIdentity ==
    \A k \in procs[Revoker].revoked :
        GetUserByKey(users, cache, blacklist, k).ret = NoUser

====
